---- MODULE Spec2Model ----
(***************************************************************************)
(* A model of the retrieval pipeline of go-rag: the vector store           *)
(* (core/vector_db.go), the ingest path of the RAG service                 *)
(* (core/rag_service.go), the embedding client                             *)
(* (core/embedding_service.go) and the adaptive chunker                    *)
(* (ProcessDocumentContent).                                               *)
(*                                                                         *)
(* Spec       the vector store under ingests, deletes and collection       *)
(*            management.                                                  *)
(* QuerySpec  the vector store under ingests, deletes and queries.         *)
(* LegacySpec the vector store under ingests, deletes and AddChunk.        *)
(*            In Spec, QuerySpec, LegacySpec and ServiceSpec an ingest is  *)
(*            a sequence of steps (the commit of the document, each        *)
(*            statement of ensureEmbeddingTableExists, the insert          *)
(*            transaction) that the other requests interleave with.        *)
(* EmbSpec    one call of GetEmbeddings against an embedding endpoint.     *)
(* ChunkSpec  one call of ProcessDocumentContent, loop iteration by loop   *)
(*            iteration.                                                   *)
(* ConcSpec   two concurrent calls of AddEmbeddings, statement by          *)
(*            statement.                                                   *)
(* ServiceSpec the store under ingests, deletes of documents and           *)
(*            RAGService.Query; a Query is the search followed by one      *)
(*            parent look-up per chunk that names a parent, and the other  *)
(*            requests run between these reads.                            *)
(***************************************************************************)
EXTENDS Integers, Sequences, FiniteSets, TLC

VARIABLES
    collections,       \* rows of table collections
    documents,         \* rows of table documents
    enhanced_chunks,   \* rows of table enhanced_chunks
    chunk_embeddings,  \* the vec0 virtual table chunk_embeddings (created lazily)
    nextDoc,           \* number of document ids handed out so far (uuid.New)
    result,            \* what the last step returned to the caller of its operation
    embedding,         \* a call of GetEmbeddings: its arguments, the endpoint, its return
    chunker,           \* a call of ProcessDocumentContent: its arguments and its locals
    calls              \* the calls of AddEmbeddings and of Query in progress

vars == <<collections, documents, enhanced_chunks, chunk_embeddings, nextDoc, result,
          embedding, chunker, calls>>

(***************************************************************************)
(* Bounds of the model.                                                    *)
(***************************************************************************)
MaxDocs == 2
MaxK == 2

CollectionNames == {"a", "b"}
Descriptions == {"first", "second"}
DocTypes == {"resume", "article"}

\* Embedding vectors: float32 slices, here with integer coordinates.  The
\* vectors are chosen so that every Euclidean distance the model computes is
\* an integer (|1-0|, |3-0|, |(0,4)-(0,0)|, ...).
Vectors == {<<1>>, <<3>>, <<0, 4>>}
QueryVectors == {<<0>>, <<0, 0>>}

\* chunk_type and section of the chunk at position i of a document: the
\* types alternate as the chunker's section / section_part chunks do.
ChunkKind(i) ==
    IF i % 2 = 1 THEN [chunk_type |-> "section", section |-> "experience"]
    ELSE [chunk_type |-> "section_part", section |-> "skills"]

\* parent_chunk_id of a chunk without parent (NULL).
NoParent == <<0, 0>>

\* The length of the text and the keywords of the chunk at position i.
ChunkText(i) ==
    IF i % 2 = 1 THEN [text_len |-> 300, keywords |-> {"senior", "engineer"}]
    ELSE [text_len |-> 50, keywords |-> {"skills", "golang"}]

\* The ingest requests of the model: a document type and the embeddings that
\* generateEmbeddings attached to the chunks of the document, in chunk order.
\* Every chunk carries a non-empty embedding of whatever length the embedding
\* service (or the oversize placeholder) produced: no chunk, one chunk, two
\* chunks of one dimension, and two chunks of different dimensions.
Requests ==
    {[doc_type |-> "resume", embeddings |-> <<>>],
     [doc_type |-> "resume", embeddings |-> <<<<1>>>>],
     [doc_type |-> "article", embeddings |-> <<<<3>>>>],
     [doc_type |-> "resume", embeddings |-> <<<<3>>, <<1>>>>],
     [doc_type |-> "article", embeddings |-> <<<<0, 4>>>>],
     [doc_type |-> "article", embeddings |-> <<<<1>>, <<0, 4>>>>],
     [doc_type |-> "resume", embeddings |-> <<<<0, 4>>, <<3>>>>]}

(***************************************************************************)
(* The vector store, core/vector_db.go.                                    *)
(***************************************************************************)
Range(s) == {s[i] : i \in DOMAIN s}

\* The chunk_embeddings table before its first CREATE VIRTUAL TABLE.
NoTable == [exists |-> FALSE, dim |-> 0, rows |-> {}]

\* CREATE VIRTUAL TABLE chunk_embeddings USING vec0(chunk_id TEXT PRIMARY KEY,
\* embedding FLOAT[dimension]): an empty table typed at the dimension.
CreateEmbeddingTable(dimension) == [exists |-> TRUE, dim |-> dimension, rows |-> {}]

\* The probe of ensureEmbeddingTableExists: when the table exists, a zero
\* vector of the wanted dimension is inserted; a "Dimension mismatch" answer
\* drops the table and it is created again at the wanted dimension, a
\* successful probe row is deleted again and the table is kept.  None of this
\* runs inside a transaction.
ensureEmbeddingTableExists(table, dimension) ==
    IF table.exists
    THEN IF table.dim # dimension
         THEN CreateEmbeddingTable(dimension)
         ELSE table
    ELSE CreateEmbeddingTable(dimension)

\* INSERT OR REPLACE INTO chunk_embeddings (chunk_id, embedding): the row of
\* the chunk id is replaced.
UpsertEmbedding(table, id, vec) ==
    [table EXCEPT !.rows = {r \in @ : r.chunk_id # id}
                            \cup {[embedding |-> vec, chunk_id |-> id]}]

\* The length of the first non-empty embedding of the batch, 0 when none.
EmbeddingDim(chunks) ==
    LET set == {i \in DOMAIN chunks : Len(chunks[i].embedding) > 0}
    IN IF set = {} THEN 0
       ELSE Len(chunks[CHOOSE i \in set : \A j \in set : i <= j].embedding)

\* A variant of InsertEmbeddings on an embedding column that takes vectors
\* of any length.
RECURSIVE InsertEmbeddingsUntyped(_, _, _, _, _)
InsertEmbeddingsUntyped(table, chunks, i, embeddingDim, fault) ==
    IF i > Len(chunks) THEN [table |-> table, err |-> FALSE]
    ELSE IF Len(chunks[i].embedding) = 0
         THEN InsertEmbeddingsUntyped(table, chunks, i + 1, embeddingDim, fault)
    ELSE IF Len(chunks[i].embedding) # embeddingDim
         THEN [table |-> table, err |-> TRUE]
    ELSE IF fault \/ ~table.exists
         THEN [table |-> table, err |-> TRUE]
    ELSE InsertEmbeddingsUntyped(UpsertEmbedding(table, chunks[i].id, chunks[i].embedding),
                                 chunks, i + 1, embeddingDim, fault)

\* The insert loop of AddEmbeddings from chunk i on, inside the transaction:
\* chunks without embedding are skipped, a length other than embeddingDim
\* ends the loop with an error, and so does a failing INSERT (the vec0 column
\* refuses a vector that is not of the table's dimension; fault is a storage
\* error on this statement).
RECURSIVE InsertEmbeddings(_, _, _, _, _)
InsertEmbeddings(table, chunks, i, embeddingDim, fault) ==
    IF i > Len(chunks) THEN [table |-> table, err |-> FALSE]
    ELSE IF Len(chunks[i].embedding) = 0
         THEN InsertEmbeddings(table, chunks, i + 1, embeddingDim, fault)
    ELSE IF Len(chunks[i].embedding) # embeddingDim
         THEN [table |-> table, err |-> TRUE]
    ELSE IF fault \/ Len(chunks[i].embedding) # table.dim
         THEN [table |-> table, err |-> TRUE]
    ELSE InsertEmbeddings(UpsertEmbedding(table, chunks[i].id, chunks[i].embedding),
                          chunks, i + 1, embeddingDim, fault)

\* VectorDB.AddEmbeddings: the new state of the table and whether an error
\* is returned.  The transaction covers the inserts only: on an error its
\* rows are rolled back, but what ensureEmbeddingTableExists did stays.
AddEmbeddings(table, chunks, fault) ==
    LET embeddingDim == EmbeddingDim(chunks)
        ensured == ensureEmbeddingTableExists(table, embeddingDim)
        tx == InsertEmbeddings(ensured, chunks, 1, embeddingDim, fault)
    IN IF Len(chunks) = 0 THEN [table |-> table, err |-> FALSE]
       ELSE IF embeddingDim = 0 THEN [table |-> table, err |-> TRUE]
       ELSE IF tx.err THEN [table |-> ensured, err |-> TRUE]
       ELSE [table |-> tx.table, err |-> FALSE]

\* The document row VectorDB.AddDocument inserts.
DocumentRow(collectionName, doc) ==
    [doc_type |-> doc.doc_type, id |-> doc.id, collection_name |-> collectionName,
     chunk_count |-> Len(doc.chunks)]

\* The chunk row insertEnhancedChunk inserts.
ChunkRow(collectionName, chunk) ==
    [chunk_type |-> chunk.chunk_type, section |-> chunk.section,
     text_len |-> chunk.text_len, keywords |-> chunk.keywords,
     id |-> chunk.id, collection_name |-> collectionName,
     document_id |-> chunk.document_id, chunk_index |-> chunk.chunk_index,
     parent_chunk_id |-> chunk.parent_chunk_id]

\* VectorDB.AddDocument: INSERT OR REPLACE of the document row and of every
\* chunk row, in one transaction; a failing statement rolls all of it back.
AddDocument(docs, chunks, collectionName, doc, fault) ==
    IF fault THEN [documents |-> docs, enhanced_chunks |-> chunks, err |-> TRUE]
    ELSE [documents |-> {d \in docs : d.id # doc.id}
                          \cup {DocumentRow(collectionName, doc)},
          enhanced_chunks |->
              {c \in chunks : c.id \notin {x.id : x \in Range(doc.chunks)}}
                  \cup {ChunkRow(collectionName, x) : x \in Range(doc.chunks)},
          err |-> FALSE]

\* The document ProcessDocumentContent and generateEmbeddings hand to the
\* store: a fresh document id, chunk ids of its own, chunk_index from 0.
NewDocument(id, docType, embeddings) ==
    [doc_type |-> docType, id |-> id,
     chunks |-> [i \in DOMAIN embeddings |->
                    [embedding |-> embeddings[i], chunk_type |-> ChunkKind(i).chunk_type,
                     section |-> ChunkKind(i).section,
                     text_len |-> ChunkText(i).text_len,
                     keywords |-> ChunkText(i).keywords, id |-> <<id, i>>,
                     document_id |-> id,
                     chunk_index |-> i - 1,
                     parent_chunk_id |-> NoParent]]]

\* The document the ParentDocument strategy hands to the store: a parent
\* chunk first, then its children, which name the parent and restart
\* chunk_index at 0.
NewParentDocument(id, docType, embeddings) ==
    [doc_type |-> docType, id |-> id,
     chunks |-> [i \in DOMAIN embeddings |->
                    [embedding |-> embeddings[i],
                     chunk_type |-> IF i = 1 THEN "parent" ELSE "child",
                     section |-> "section_1",
                     text_len |-> IF i = 1 THEN 2400 ELSE 100,
                     keywords |-> {"senior", "engineer"},
                     id |-> <<id, i>>,
                     document_id |-> id,
                     chunk_index |-> IF i = 1 THEN 0 ELSE i - 2,
                     parent_chunk_id |-> IF i = 1 THEN NoParent ELSE <<id, 1>>]]]

\* A document id the service never hands out: the caller of the legacy
\* AddChunk names the document of its chunk itself.
LegacyDocument == MaxDocs + 1

\* The chunks the callers of AddChunk pass (models.DocumentChunk: ID,
\* DocumentID, Text, Embedding): a chunk of a document the store has no row
\* of, and a chunk under the same id that names the first document the
\* service stores.
LegacyChunks ==
    {[text_len |-> 40, id |-> <<LegacyDocument, 1>>, document_id |-> LegacyDocument],
     [text_len |-> 40, id |-> <<LegacyDocument, 1>>, document_id |-> 1]}

\* VectorDB.AddChunk, one transaction: the chunk becomes an EnhancedChunk of
\* chunk_type "legacy" whose other fields are zero, and insertEnhancedChunk
\* stores its row with INSERT OR REPLACE.  No document row is written and the
\* embedding of the chunk is not stored.
AddChunk(chunks, collectionName, chunk, fault) ==
    LET enhancedChunk == [chunk_type |-> "legacy", section |-> "",
                          text_len |-> chunk.text_len, keywords |-> {},
                          id |-> chunk.id, document_id |-> chunk.document_id,
                          chunk_index |-> 0, parent_chunk_id |-> NoParent]
    IN IF fault THEN [enhanced_chunks |-> chunks, err |-> TRUE]
       ELSE [enhanced_chunks |-> {c \in chunks : c.id # chunk.id}
                                    \cup {ChunkRow(collectionName, enhancedChunk)},
             err |-> FALSE]

\* A variant of DeleteDocument without the DELETE on documents.
DeleteDocumentKeepingRow(docs, chunks, table, documentID, fault) ==
    IF ~(\E d \in docs : d.id = documentID) \/ ~table.exists \/ fault
    THEN [documents |-> docs, enhanced_chunks |-> chunks, table |-> table,
          err |-> "storage", chunks_deleted |-> 0]
    ELSE [documents |-> docs,
          enhanced_chunks |-> {c \in chunks : c.document_id # documentID},
          table |-> [table EXCEPT !.rows =
                        {r \in @ : r.chunk_id \notin
                            {c.id : c \in {x \in chunks : x.document_id = documentID}}}],
          err |-> "none",
          chunks_deleted |-> Cardinality({c \in chunks : c.document_id = documentID})]

\* VectorDB.DeleteDocument, one transaction: the document is looked up, then
\* the embeddings of its chunks, its chunks and its row are deleted.  The
\* DELETE on chunk_embeddings fails while that table has not been created;
\* fault is a storage error on a statement.  Every error rolls back.
\* chunks_deleted is the RowsAffected of the DELETE on enhanced_chunks.
DeleteDocument(docs, chunks, table, documentID, fault) ==
    LET unchanged(kind) == [documents |-> docs, enhanced_chunks |-> chunks, table |-> table,
                            err |-> kind, chunks_deleted |-> 0]
        ids == {c.id : c \in {x \in chunks : x.document_id = documentID}}
    IN IF ~\E d \in docs : d.id = documentID THEN unchanged("not_found")
       ELSE IF ~table.exists THEN unchanged("no_such_table")
       ELSE IF fault THEN unchanged("storage")
       ELSE [documents |-> {d \in docs : d.id # documentID},
             enhanced_chunks |-> {c \in chunks : c.document_id # documentID},
             table |-> [table EXCEPT !.rows = {r \in @ : r.chunk_id \notin ids}],
             err |-> "none",
             chunks_deleted |-> Cardinality(ids)]

\* VectorDB.DeleteAllDocumentsInCollection, one transaction.
DeleteAllDocumentsInCollection(docs, chunks, table, collectionName, fault) ==
    LET unchanged(kind) == [documents |-> docs, enhanced_chunks |-> chunks,
                            table |-> table, err |-> kind]
        ids == {c.id : c \in {x \in chunks : x.collection_name = collectionName}}
    IN IF ~\E d \in docs : d.collection_name = collectionName
       THEN unchanged("not_found")
       ELSE IF ~table.exists THEN unchanged("no_such_table")
       ELSE IF fault THEN unchanged("storage")
       ELSE [documents |-> {d \in docs : d.collection_name # collectionName},
             enhanced_chunks |-> {c \in chunks : c.collection_name # collectionName},
             table |-> [table EXCEPT !.rows = {r \in @ : r.chunk_id \notin ids}],
             err |-> "none"]

\* VectorDB.DeleteCollection, one transaction: embeddings, chunks, documents,
\* then the collection row; no collection row deleted is the not-found error,
\* which rolls back the deletes before it.
DeleteCollection(colls, docs, chunks, table, name, fault) ==
    LET unchanged(kind) == [collections |-> colls, documents |-> docs, enhanced_chunks |-> chunks,
                            table |-> table, err |-> kind]
        ids == {c.id : c \in {x \in chunks : x.collection_name = name}}
    IN IF ~table.exists THEN unchanged("no_such_table")
       ELSE IF fault THEN unchanged("storage")
       ELSE IF ~\E c \in colls : c.name = name THEN unchanged("not_found")
       ELSE [collections |-> {c \in colls : c.name # name},
             documents |-> {d \in docs : d.collection_name # name},
             enhanced_chunks |-> {c \in chunks : c.collection_name # name},
             table |-> [table EXCEPT !.rows = {r \in @ : r.chunk_id \notin ids}],
             err |-> "none"]

\* VectorDB.ListDocuments: the documents of the collection, each with the
\* number of its chunks in that collection (LEFT JOIN ... GROUP BY d.id).
ListDocuments(docs, chunks, collectionName) ==
    {[doc_type |-> d.doc_type, id |-> d.id,
      chunk_count |-> Cardinality({c \in chunks : /\ c.document_id = d.id
                                                   /\ c.collection_name = collectionName})] :
        d \in {x \in docs : x.collection_name = collectionName}}

\* The integer square root.
ISqrt(n) == CHOOSE r \in 0..n : r * r <= n /\ n < (r + 1) * (r + 1)

RECURSIVE SumSquares(_, _, _)
SumSquares(a, b, i) ==
    IF i > Len(a) THEN 0
    ELSE (a[i] - b[i]) * (a[i] - b[i]) + SumSquares(a, b, i + 1)

\* vt.distance of a vec0 table declared without distance_metric: the
\* Euclidean distance between the stored vector and the query vector.
Distance(a, b) == ISqrt(SumSquares(a, b, 1))

\* vt.embedding MATCH ? AND k = ?: the k rows of chunk_embeddings nearest to
\* the query vector, nearest first.  Rows at equal distance come in any order,
\* so this is the set of the answers vec0 may give.
KNN(table, queryEmbedding, topK) ==
    LET m == IF Cardinality(table.rows) < topK THEN Cardinality(table.rows) ELSE topK
        d(r) == Distance(r.embedding, queryEmbedding)
    IN {s \in [1..m -> table.rows] :
          /\ \A i, j \in 1..m : i < j => s[i] # s[j] /\ d(s[i]) <= d(s[j])
          /\ \A r \in table.rows : r \notin Range(s) => \A i \in 1..m : d(s[i]) <= d(r)}

\* The WHERE clause QuerySimilarChunks puts on the joined chunk row: the
\* collection, and one condition for each of the filter keys chunk_type,
\* section and doc_type; other keys add no condition.
MatchesFilters(c, docs, collectionName, filters) ==
    /\ c.collection_name = collectionName
    /\ "chunk_type" \in DOMAIN filters => c.chunk_type = filters["chunk_type"]
    /\ "section" \in DOMAIN filters => c.section = filters["section"]
    /\ "doc_type" \in DOMAIN filters =>
          \E d \in docs : d.id = c.document_id /\ d.doc_type = filters["doc_type"]

\* The rows the query returns for one answer of the vec0 scan: each vec0 row
\* joined to its chunk row, kept when the WHERE clause holds, in distance order.
JoinRows(knn, docs, chunks, collectionName, filters) ==
    SelectSeq(knn, LAMBDA r : \E c \in chunks :
                  c.id = r.chunk_id /\ MatchesFilters(c, docs, collectionName, filters))

\* A variant of Similarity that reports the distance itself.
SimilarityIsDistance(distance) == distance

\* The similarity QuerySimilarChunks reports for a distance.
Similarity(distance) == 1 - distance

\* VectorDB.QuerySimilarChunks: the set of outcomes it may return.  The query
\* fails while chunk_embeddings does not exist and when the query vector is
\* not of the table's dimension.
QuerySimilarChunks(docs, chunks, table, collectionName, queryEmbedding, topK, filters) ==
    IF ~table.exists \/ Len(queryEmbedding) # table.dim
    THEN {[chunks |-> <<>>, err |-> TRUE, scores |-> <<>>]}
    ELSE {[chunks |-> [i \in DOMAIN rows |-> rows[i].chunk_id],
           err |-> FALSE,
           scores |-> [i \in DOMAIN rows |->
                          Similarity(Distance(rows[i].embedding, queryEmbedding))]] :
            rows \in {JoinRows(knn, docs, chunks, collectionName, filters) :
                        knn \in KNN(table, queryEmbedding, topK)}}

\* The metadata filter maps of the model's queries; "language" is a key the
\* store does not know.
NoFilter == [key \in {} |-> ""]
Filters ==
    {NoFilter,
     [key \in {"chunk_type"} |-> "section"],
     [key \in {"section", "doc_type"} |->
         IF key = "section" THEN "experience" ELSE "resume"],
     [key \in {"language"} |-> "en"]}

(***************************************************************************)
(* The operations of the service on the store.                             *)
(***************************************************************************)
\* No call of the embedding client or of the chunker is in progress.
NoCall == [pc |-> "none"]

\* The request goroutines that run RAGService.AddDocument or
\* VectorDB.AddEmbeddings at one time: gin serves every request on a
\* goroutine of its own.
Procs == {1, 2}

\* The chunk id of the probe row, 'test_dimension_check'.
TestRowId == <<0, 0>>

\* The probe vector of ensureEmbeddingTableExists: dimension times "0.0".
TestEmbedding(dimension) == [i \in 1..dimension |-> 0]

\* A goroutine that is not inside AddEmbeddings.  Inside the call, chunks is
\* its argument, embeddingDim and tableExists are its locals, pc is the
\* statement it executes next, and doc is the document whose ingest made the
\* call (0 when AddEmbeddings is called on its own).
IdleCall == [chunks |-> << >>, embeddingDim |-> 0, err |-> FALSE,
             doc |-> 0, pc |-> "idle", tableExists |-> FALSE]

\* The answer of a search that has not been made.
NoHit == [chunks |-> << >>, err |-> FALSE, scores |-> << >>]

\* The lists of includeParentChunks before its loop.
NoChunks == [chunks |-> << >>, scores |-> << >>, seen |-> {}]

\* The goroutine of a Query request outside RAGService.Query.  Inside the
\* call, from the search to the last look-up of includeParentChunks, req is
\* the request, hit the answer of QuerySimilarChunks and hitRows the chunks
\* it returned, i the position of the loop of includeParentChunks in the
\* chunks the threshold kept, acc the lists of the loop and rows the chunks
\* in them, lookups the number of calls of GetChunkWithParents made so far.
\* snapshot is the chunk table as it was when the search read it; the code
\* keeps no such copy, the properties of the response refer to it.
IdleQuery ==
    [i |-> 0,
     rows |-> {},
     pc |-> "idle", req |-> [collection_name |-> "", query |-> "", reranker_enabled |-> FALSE,
              include_parents |-> FALSE, semantic_threshold |-> [n |-> 0, e |-> 0],
              top_k |-> 0, query_expansion |-> FALSE, metadata_filters |-> NoFilter], hit |-> NoHit, acc |-> NoChunks, hitRows |-> {},
     snapshot |-> {}, lookups |-> 0]

\* No goroutine is inside AddEmbeddings or inside Query.
NoCalls == [query |-> IdleQuery, start |-> NoTable, of |-> [p \in Procs |-> IdleCall]]

\* The database after NewVectorDB: the relational tables exist and are empty,
\* the embedding table does not exist.
EmptyStore ==
    /\ collections = {}
    /\ documents = {}
    /\ enhanced_chunks = {}
    /\ chunk_embeddings = NoTable
    /\ nextDoc = 0
    /\ result = [op |-> "none"]

Init ==
    /\ EmptyStore
    /\ embedding = NoCall
    /\ chunker = NoCall
    /\ calls = NoCalls

\* A variant of CreateCollection with INSERT OR REPLACE.
CallCreateCollectionReplacing ==
    \E name \in CollectionNames, description \in Descriptions :
        /\ collections' = {c \in collections : c.name # name}
                              \cup {[name |-> name, description |-> description]}
        /\ result' = [err |-> FALSE, name |-> name, op |-> "create_collection",
                      description |-> description]
        /\ UNCHANGED <<documents, enhanced_chunks, chunk_embeddings, nextDoc>>
        /\ UNCHANGED <<embedding, chunker, calls>>

\* VectorDB.CreateCollection: INSERT OR IGNORE.
CallCreateCollection ==
    \E name \in CollectionNames, description \in Descriptions :
        /\ collections' =
              IF \E c \in collections : c.name = name THEN collections
              ELSE collections \cup {[name |-> name, description |-> description]}
        /\ result' = [err |-> FALSE, name |-> name, op |-> "create_collection",
                      description |-> description]
        /\ UNCHANGED <<documents, enhanced_chunks, chunk_embeddings, nextDoc>>
        /\ UNCHANGED <<embedding, chunker, calls>>

IngestFaults == {"none", "embedding_service", "document_tx"}

\* The goroutine that serves the next request: the first idle one.
FreeProc ==
    CHOOSE p \in Procs :
        /\ calls.of[p].pc = "idle"
        /\ \A q \in Procs : calls.of[q].pc = "idle" => p <= q

\* RAGService.AddDocument from the chunked document to the first statement
\* of ensureEmbeddingTableExists: generateEmbeddings, VectorDB.AddDocument
\* (one transaction, committed here) and the checks at the head of
\* VectorDB.AddEmbeddings.  The request returns in this step when a call
\* fails, when the document has no chunk (AddEmbeddings returns nil) and when
\* no chunk has an embedding; otherwise its goroutine goes on, statement by
\* statement, with the document and chunk rows committed and no embedding
\* stored yet.
Ingest(collectionName, doc, fault) ==
    LET db == AddDocument(documents, enhanced_chunks, collectionName, doc,
                          fault = "document_tx")
        step == IF fault = "embedding_service" THEN "generate_embeddings"
                ELSE IF db.err THEN "add_document"
                ELSE IF Len(doc.chunks) = 0 THEN "done"
                ELSE IF EmbeddingDim(doc.chunks) = 0 THEN "add_embeddings"
                ELSE "ensure_table"
        stored == step \in {"done", "add_embeddings", "ensure_table"}
    IN /\ nextDoc' = doc.id
       /\ documents' = IF stored THEN db.documents ELSE documents
       /\ enhanced_chunks' = IF stored THEN db.enhanced_chunks ELSE enhanced_chunks
       /\ UNCHANGED chunk_embeddings
       /\ IF step = "ensure_table"
          THEN /\ calls' = [calls EXCEPT !.of[FreeProc] =
                     [chunks |-> [i \in DOMAIN doc.chunks |->
                                     [embedding |-> doc.chunks[i].embedding,
                                      id |-> doc.chunks[i].id]],
                      embeddingDim |-> EmbeddingDim(doc.chunks),
                      err |-> FALSE,
                      doc |-> doc.id,
                      pc |-> "probe_table",
                      tableExists |-> FALSE]]
               /\ result' = [op |-> "none"]
          ELSE /\ result' = [err |-> step # "done", doc |-> doc.id,
                             op |-> "add_document", step |-> step]
               /\ UNCHANGED calls

\* RAGService.AddDocument: content check, ProcessDocumentContent,
\* generateEmbeddings, VectorDB.AddDocument and the entry into
\* VectorDB.AddEmbeddings.  A request without content fails before a document
\* is made; every other request gets a document with a fresh id.
CallAddDocument ==
    /\ nextDoc < MaxDocs
    /\ \E p \in Procs : calls.of[p].pc = "idle"
    /\ UNCHANGED <<collections, embedding, chunker>>
    /\ \/ /\ result' = [err |-> TRUE, doc |-> 0, op |-> "add_document",
                        step |-> "content"]
          /\ UNCHANGED <<documents, enhanced_chunks, chunk_embeddings, nextDoc, calls>>
       \/ \E collectionName \in CollectionNames, request \in Requests,
             fault \in IngestFaults :
            Ingest(collectionName,
                   NewDocument(nextDoc + 1, request.doc_type, request.embeddings),
                   fault)

\* The embeddings of the chunks of a document chunked with the
\* ParentDocument strategy: of the parent chunk, then of its child.
ParentEmbeddings == {<<<<3>>, <<1>>>>, <<<<1>>, <<3>>>>}

\* RAGService.AddDocument of a request whose chunking_config asks for the
\* ParentDocument strategy.
CallAddParentDocument ==
    /\ nextDoc < MaxDocs
    /\ \E p \in Procs : calls.of[p].pc = "idle"
    /\ UNCHANGED <<collections, embedding, chunker>>
    /\ \E collectionName \in CollectionNames, embeddings \in ParentEmbeddings :
          Ingest(collectionName, NewParentDocument(nextDoc + 1, "resume", embeddings),
                 "none")

\* What a statement of AddEmbeddings leaves alone.
ConcUnchanged ==
    UNCHANGED <<collections, documents, enhanced_chunks, nextDoc, embedding, chunker>>

\* SELECT 1 FROM sqlite_master WHERE type='table' AND name='chunk_embeddings'.
ProbeTable ==
    \E p \in Procs :
        /\ calls.of[p].pc = "probe_table"
        /\ calls' = [calls EXCEPT !.of[p] =
              [@ EXCEPT !.tableExists = chunk_embeddings.exists,
                        !.pc = IF chunk_embeddings.exists THEN "probe_insert"
                               ELSE "create"]]
        /\ UNCHANGED chunk_embeddings
        /\ result' = [op |-> "none"]
        /\ ConcUnchanged

\* INSERT OR REPLACE of the probe row.  "Dimension mismatch" leads to the
\* DROP; success leaves the probe row in the table until the clean-up; any
\* other error (the table has been dropped since the SELECT) is neither, and
\* as tableExists is true ensureEmbeddingTableExists returns nil.
ProbeInsert ==
    \E p \in Procs :
        /\ calls.of[p].pc = "probe_insert"
        /\ IF ~chunk_embeddings.exists
           THEN /\ calls' = [calls EXCEPT !.of[p].pc = "tx"]
                /\ UNCHANGED chunk_embeddings
           ELSE IF chunk_embeddings.dim # calls.of[p].embeddingDim
           THEN /\ calls' = [calls EXCEPT !.of[p].pc = "drop"]
                /\ UNCHANGED chunk_embeddings
           ELSE /\ calls' = [calls EXCEPT !.of[p].pc = "cleanup"]
                /\ chunk_embeddings' =
                      UpsertEmbedding(chunk_embeddings, TestRowId,
                                      TestEmbedding(calls.of[p].embeddingDim))
        /\ result' = [op |-> "none"]
        /\ ConcUnchanged

\* DROP TABLE IF EXISTS chunk_embeddings.
DropTable ==
    \E p \in Procs :
        /\ calls.of[p].pc = "drop"
        /\ chunk_embeddings' = NoTable
        /\ calls' = [calls EXCEPT !.of[p].pc = "create", !.of[p].tableExists = FALSE]
        /\ result' = [op |-> "none"]
        /\ ConcUnchanged

\* CREATE VIRTUAL TABLE IF NOT EXISTS chunk_embeddings: nothing happens when
\* the table exists, whatever its dimension.
CreateTable ==
    \E p \in Procs :
        /\ calls.of[p].pc = "create"
        /\ chunk_embeddings' =
              IF chunk_embeddings.exists THEN chunk_embeddings
              ELSE CreateEmbeddingTable(calls.of[p].embeddingDim)
        /\ calls' = [calls EXCEPT !.of[p].pc = "tx"]
        /\ result' = [op |-> "none"]
        /\ ConcUnchanged

\* DELETE FROM chunk_embeddings WHERE chunk_id = 'test_dimension_check'; its
\* error is not looked at.
CleanUpProbe ==
    \E p \in Procs :
        /\ calls.of[p].pc = "cleanup"
        /\ chunk_embeddings' =
              [chunk_embeddings EXCEPT !.rows = {r \in @ : r.chunk_id # TestRowId}]
        /\ calls' = [calls EXCEPT !.of[p].pc = "tx"]
        /\ result' = [op |-> "none"]
        /\ ConcUnchanged

\* The insert transaction of AddEmbeddings against the table as it is now,
\* and the return of the call: to the caller of AddEmbeddings, or, within an
\* ingest, through RAGService.AddDocument to the request.  fault is a storage
\* error on an INSERT; the calls that are made on their own run on a store
\* without such errors.
InsertTransaction ==
    \E p \in Procs, fault \in BOOLEAN :
        /\ calls.of[p].pc = "tx"
        /\ fault => calls.of[p].doc # 0
        /\ LET tx == InsertEmbeddings(chunk_embeddings, calls.of[p].chunks, 1,
                                      calls.of[p].embeddingDim, fault)
           IN /\ chunk_embeddings' = IF tx.err THEN chunk_embeddings ELSE tx.table
              /\ IF calls.of[p].doc = 0
                 THEN /\ calls' = [calls EXCEPT !.of[p].pc = "returned",
                                                !.of[p].err = tx.err]
                      /\ result' = [op |-> "none"]
                 ELSE /\ calls' = [calls EXCEPT !.of[p] = IdleCall]
                      /\ result' = [err |-> tx.err, doc |-> calls.of[p].doc,
                                    op |-> "add_document",
                                    step |-> IF tx.err THEN "add_embeddings"
                                             ELSE "done"]
        /\ ConcUnchanged

\* VectorDB.AddChunk, called by a user of package core (no route of the
\* router calls it).
CallAddChunk ==
    \E collectionName \in CollectionNames, chunk \in LegacyChunks, fault \in BOOLEAN :
        LET tx == AddChunk(enhanced_chunks, collectionName, chunk, fault)
        IN /\ enhanced_chunks' = tx.enhanced_chunks
           /\ result' = [err |-> tx.err, doc |-> chunk.document_id, op |-> "add_chunk"]
           /\ UNCHANGED <<collections, documents, chunk_embeddings, nextDoc>>
           /\ UNCHANGED <<embedding, chunker, calls>>

CallDeleteDocument ==
    \E documentID \in 1..MaxDocs, fault \in BOOLEAN :
        LET tx == DeleteDocument(documents, enhanced_chunks, chunk_embeddings,
                                 documentID, fault)
        IN /\ documents' = tx.documents
           /\ enhanced_chunks' = tx.enhanced_chunks
           /\ chunk_embeddings' = tx.table
           /\ result' = [doc |-> documentID, chunks_deleted |-> tx.chunks_deleted,
                         op |-> "delete_document",
                         error |-> tx.err]
           /\ UNCHANGED <<collections, nextDoc, embedding, chunker, calls>>

CallDeleteAllDocumentsInCollection ==
    \E collectionName \in CollectionNames, fault \in BOOLEAN :
        LET tx == DeleteAllDocumentsInCollection(documents, enhanced_chunks,
                                                 chunk_embeddings, collectionName, fault)
        IN /\ documents' = tx.documents
           /\ enhanced_chunks' = tx.enhanced_chunks
           /\ chunk_embeddings' = tx.table
           /\ result' = [name |-> collectionName, op |-> "delete_all_documents",
                         error |-> tx.err]
           /\ UNCHANGED <<collections, nextDoc, embedding, chunker, calls>>

CallDeleteCollection ==
    \E name \in CollectionNames, fault \in BOOLEAN :
        LET tx == DeleteCollection(collections, documents, enhanced_chunks,
                                   chunk_embeddings, name, fault)
        IN /\ collections' = tx.collections
           /\ documents' = tx.documents
           /\ enhanced_chunks' = tx.enhanced_chunks
           /\ chunk_embeddings' = tx.table
           /\ result' = [name |-> name, op |-> "delete_collection", error |-> tx.err]
           /\ UNCHANGED <<nextDoc, embedding, chunker, calls>>

CallQuerySimilarChunks ==
    \E collectionName \in CollectionNames, queryEmbedding \in QueryVectors,
       topK \in 1..MaxK, filters \in Filters :
        \E out \in QuerySimilarChunks(documents, enhanced_chunks, chunk_embeddings,
                                      collectionName, queryEmbedding, topK, filters) :
            /\ result' = [chunks |-> out.chunks, err |-> out.err, filters |-> filters,
                          scores |-> out.scores, query |-> queryEmbedding,
                          op |-> "query", collection |-> collectionName, k |-> topK]
            /\ UNCHANGED <<collections, documents, enhanced_chunks, chunk_embeddings,
                           nextDoc, embedding, chunker, calls>>

Next ==
    \/ CallCreateCollection
    \/ CallAddDocument
    \/ ProbeTable
    \/ ProbeInsert
    \/ DropTable
    \/ CreateTable
    \/ CleanUpProbe
    \/ InsertTransaction
    \/ CallDeleteDocument
    \/ CallDeleteAllDocumentsInCollection
    \/ CallDeleteCollection

\* The store under ingests, deletes and collection management.
Spec == Init /\ [][Next]_vars

QueryNext ==
    \/ CallAddDocument
    \/ ProbeTable
    \/ ProbeInsert
    \/ DropTable
    \/ CreateTable
    \/ CleanUpProbe
    \/ InsertTransaction
    \/ CallDeleteDocument
    \/ CallDeleteAllDocumentsInCollection
    \/ CallQuerySimilarChunks

\* The store under ingests, deletes and similarity queries.
QuerySpec == Init /\ [][QueryNext]_vars

LegacyNext ==
    \/ CallAddDocument
    \/ ProbeTable
    \/ ProbeInsert
    \/ DropTable
    \/ CreateTable
    \/ CleanUpProbe
    \/ InsertTransaction
    \/ CallDeleteDocument
    \/ CallDeleteAllDocumentsInCollection
    \/ CallAddChunk

\* The store under ingests, deletes and VectorDB.AddChunk, the insert of one
\* chunk row that no route of the router calls and every caller of package
\* core can.
LegacySpec == Init /\ [][LegacyNext]_vars

(***************************************************************************)
(* RAGService.Query, core/rag_service.go.  Scores are float64 in the code; *)
(* here they are decimal fractions n / 10^e, exact under the products the  *)
(* code takes (x * 0.9, x * 1.2, ...).                                     *)
(***************************************************************************)
Pow10(e) ==
    CASE e = 0 -> 1 [] e = 1 -> 10 [] e = 2 -> 100 [] e = 3 -> 1000
      [] e = 4 -> 10000 [] e = 5 -> 100000 [] e = 6 -> 1000000
      [] e = 7 -> 10000000 [] e = 8 -> 100000000

\* The fraction without trailing zeros, so that equal scores are equal values.
RECURSIVE Norm(_)
Norm(r) ==
    IF r.e > 0 /\ r.n % 10 = 0 THEN Norm([n |-> r.n \div 10, e |-> r.e - 1]) ELSE r

Decimal(n, e) == Norm([n |-> n, e |-> e])
Times(a, b) == Norm([n |-> a.n * b.n, e |-> a.e + b.e])
LessEq(a, b) ==
    IF a.e >= b.e THEN a.n <= b.n * Pow10(a.e - b.e)
    ELSE a.n * Pow10(b.e - a.e) <= b.n
One == Decimal(1, 0)

\* The queries of the model, in lower case.
QueryTexts == {"senior role", "skills", "weather"}

\* RAGService.expandQuery: the query followed by the first two synonyms of
\* each of its words that has an entry in the expansions map.
expandQuery(query) ==
    CASE query = "senior role" -> "senior role experienced advanced position job"
      [] query = "skills" -> "skills abilities competencies"
      [] OTHER -> query

\* strings.Fields of the queries of the model.
QueryWords(query) ==
    CASE query = "senior role" -> {"senior", "role"}
      [] query = "senior role experienced advanced position job" ->
            {"senior", "role", "experienced", "advanced", "position", "job"}
      [] query = "skills" -> {"skills"}
      [] query = "skills abilities competencies" ->
            {"skills", "abilities", "competencies"}
      [] OTHER -> {query}

\* strings.Contains(s, substr) on the strings of the model: its queries and
\* their words, the sections and keywords of its chunks, and the terms the
\* code looks for in them.
StringsContains(s, substr) ==
    \/ s = substr
    \/ <<s, substr>> \in
          {<<"senior role", "senior">>, <<"senior role", "role">>,
           <<"senior role experienced advanced position job", "senior">>,
           <<"senior role experienced advanced position job", "role">>,
           <<"senior role experienced advanced position job", "position">>,
           <<"senior role experienced advanced position job", "job">>,
           <<"senior role experienced advanced position job", "experienced">>,
           <<"senior role experienced advanced position job", "advanced">>,
           <<"skills", "skill">>,
           <<"skills abilities competencies", "skill">>,
           <<"skills abilities competencies", "skills">>,
           <<"skills abilities competencies", "abilities">>,
           <<"skills abilities competencies", "competencies">>}

positionKeywords ==
    {"position", "role", "job", "title", "lead", "manager", "director", "senior",
     "junior", "principal", "team lead", "leadership"}

isPositionQuery(query) == \E keyword \in positionKeywords : StringsContains(query, keyword)

experienceTerms == {"experience", "employment", "career", "work", "professional"}

isExperienceRelated(chunk) ==
    \/ chunk.chunk_type = "job_entry"
    \/ chunk.section # "" /\ \E term \in experienceTerms :
                                StringsContains(chunk.section, term)

\* The factors of calculateRerankedScore, in the order it applies them.
ChunkTypeBoost(chunkType) ==
    CASE chunkType \in {"section", "paragraph"} -> Decimal(12, 1)
      [] chunkType = "job_entry" -> Decimal(14, 1)
      [] chunkType = "section_part" -> Decimal(11, 1)
      [] chunkType = "parent" -> Decimal(13, 1)
      [] OTHER -> One

ExperienceBoost(query, chunk) ==
    IF isPositionQuery(query) /\ isExperienceRelated(chunk) THEN Decimal(15, 1) ELSE One

SectionBoost(query, section, asked, found) ==
    IF section # "" /\ asked /\ StringsContains(section, found) THEN Decimal(14, 1)
    ELSE One

keywordMatches(query, chunk) ==
    Cardinality({pair \in chunk.keywords \X QueryWords(query) :
                    \/ StringsContains(pair[1], pair[2])
                    \/ StringsContains(pair[2], pair[1])})

KeywordBoost(matches) == IF matches > 0 THEN Decimal(100 + 15 * matches, 2) ELSE One

LengthBoost(textLength) ==
    IF textLength >= 100 /\ textLength <= 1000 THEN Decimal(11, 1)
    ELSE IF textLength > 2000 THEN Decimal(9, 1)
    ELSE One

\* math.Min(score, 1.0).
CapAtOne(score) == IF LessEq(score, One) THEN score ELSE One

\* RAGService.calculateRerankedScore.  The chunks of the chunker carry no
\* "position" metadata and no confidence, so these two factors are 1.
calculateRerankedScore(query, chunk, originalScore) ==
    CapAtOne(
      Times(Times(Times(Times(Times(Times(Times(originalScore,
        ChunkTypeBoost(chunk.chunk_type)),
        ExperienceBoost(query, chunk)),
        SectionBoost(query, chunk.section, isPositionQuery(query), "experience")),
        SectionBoost(query, chunk.section, StringsContains(query, "skill"), "skill")),
        SectionBoost(query, chunk.section, StringsContains(query, "education"),
                     "education")),
        KeywordBoost(keywordMatches(query, chunk))),
        LengthBoost(chunk.text_len)))

\* The row of a chunk id.
ChunkOf(rows, id) == CHOOSE c \in rows : c.id = id

\* VectorDB.GetChunkWithParents: the chunk and its ancestors along
\* parent_chunk_id, the topmost ancestor first (ORDER BY level DESC); nothing
\* when the id has no row.
RECURSIVE ChunkHierarchy(_, _, _)
ChunkHierarchy(rows, chunkID, depth) ==
    IF depth = 0 \/ ~\E c \in rows : c.id = chunkID THEN << >>
    ELSE IF ChunkOf(rows, chunkID).parent_chunk_id = NoParent THEN <<chunkID>>
    ELSE Append(ChunkHierarchy(rows, ChunkOf(rows, chunkID).parent_chunk_id, depth - 1),
                chunkID)

\* A variant of GetChunkWithParents that orders the hierarchy by level
\* ascending: the requested chunk first.
GetChunkWithParentsLeafFirst(rows, chunkID) ==
    LET h == ChunkHierarchy(rows, chunkID, Cardinality(rows))
    IN [i \in DOMAIN h |-> h[Len(h) + 1 - i]]

GetChunkWithParents(rows, chunkID) == ChunkHierarchy(rows, chunkID, Cardinality(rows))

\* One more chunk in the lists of includeParentChunks, unless it was seen.
AddUnseen(acc, id, score) ==
    IF id \in acc.seen THEN acc
    ELSE [chunks |-> Append(acc.chunks, id), scores |-> Append(acc.scores, score),
          seen |-> acc.seen \cup {id}]

\* The inner loop of includeParentChunks: the parents get 0.9 of the score
\* of the chunk that names them.
RECURSIVE AddParents(_, _, _, _)
AddParents(acc, parentChunks, j, score) ==
    IF j > Len(parentChunks) THEN acc
    ELSE AddParents(AddUnseen(acc, parentChunks[j], Times(score, Decimal(9, 1))),
                    parentChunks, j + 1, score)

\* One pass of the loop of includeParentChunks, for chunk as Query holds it and
\* its score: the chunk itself, then, when it names a parent, the chain
\* GetChunkWithParents finds for the parent in the chunk table rows.
IncludeChunk(rows, chunk, score, acc) ==
    IF chunk.parent_chunk_id = NoParent THEN AddUnseen(acc, chunk.id, score)
    ELSE AddParents(AddUnseen(acc, chunk.id, score),
                    GetChunkWithParents(rows, chunk.parent_chunk_id), 1, score)

\* RAGService.includeParentChunks from chunk i on, every look-up finding the
\* same chunk table rows: what the loop gives when no request writes to the
\* store while it runs.
RECURSIVE includeParentChunksFrom(_, _, _, _, _)
includeParentChunksFrom(rows, chunks, scores, i, acc) ==
    IF i > Len(chunks) THEN acc
    ELSE includeParentChunksFrom(rows, chunks, scores, i + 1,
            IncludeChunk(rows, ChunkOf(rows, chunks[i]), scores[i], acc))

includeParentChunks(rows, chunks, scores) ==
    includeParentChunksFrom(rows, chunks, scores, 1, NoChunks)

\* The orders sort.Slice may leave n elements in when sorting by descending
\* reranked score: sort.Slice is not stable, chunks of equal score come in
\* any order.
SortedOrders(reranked) ==
    {order \in [DOMAIN reranked -> DOMAIN reranked] :
        /\ \A i, j \in DOMAIN reranked : i < j =>
              /\ order[i] # order[j]
              /\ LessEq(reranked[order[j]], reranked[order[i]])}

\* RAGService.rerankChunks: the chunks in the sorted order and their
\* reranked scores.
rerankChunks(query, rows, chunks, originalScores) ==
    LET reranked == [i \in DOMAIN chunks |->
                        calculateRerankedScore(query, ChunkOf(rows, chunks[i]),
                                               originalScores[i])]
    IN {[chunks |-> [i \in DOMAIN chunks |-> chunks[order[i]]],
         rerankedScores |-> [i \in DOMAIN chunks |-> reranked[order[i]]]] :
           order \in SortedOrders(reranked)}

Prefix(seq, n) == IF Len(seq) > n THEN SubSeq(seq, 1, n) ELSE seq

\* The responses of Query.
ErrorResponse(step) ==
    [chunks |-> << >>, err |-> step, scores |-> << >>, reranked |-> << >>,
     answer |-> ""]
EmptyResponse(answer) ==
    [chunks |-> << >>, err |-> "none", scores |-> << >>, reranked |-> << >>,
     answer |-> answer]

\* The end of Query: the cut to TopK, generateAnswer, the response.  scores
\* is cut with chunks; rerankedScores only when it is longer than TopK.
Respond(topK, chunks, scores, rerankedScores, fault) ==
    IF fault = "llm" THEN ErrorResponse("generate_answer")
    ELSE [chunks |-> Prefix(chunks, topK),
          err |-> "none",
          scores |-> IF Len(chunks) > topK THEN SubSeq(scores, 1, topK) ELSE scores,
          reranked |-> IF Len(chunks) > topK THEN Prefix(rerankedScores, topK)
                       ELSE rerankedScores,
          answer |-> "generated"]

\* Query after includeParentChunks: re-ranking when asked for and more than
\* one chunk is left, then the end.  The sorted chunks replace chunks, while
\* scores stays in the order of before the sort.
RerankAndRespond(rows, req, query, topK, chunks, scores, fault) ==
    IF req.reranker_enabled /\ Len(chunks) > 1
    THEN {Respond(topK, r.chunks, scores, r.rerankedScores, fault) :
            r \in rerankChunks(query, rows, chunks, scores)}
    ELSE {Respond(topK, chunks, scores, << >>, fault)}

\* The chunks and scores the semantic threshold keeps.
ApplyThreshold(chunks, scores, threshold) ==
    LET keep == {i \in DOMAIN scores : LessEq(threshold, scores[i])}
        pick(seq) == LET pairs == SelectSeq([i \in DOMAIN seq |-> <<i, seq[i]>>],
                                            LAMBDA x : x[1] \in keep)
                     IN [i \in DOMAIN pairs |-> pairs[i][2]]
    IN [chunks |-> pick(chunks), scores |-> pick(scores)]

\* The chunks and scores Query holds after the semantic threshold, for an
\* answer hit of the store.
Kept(req, hit) ==
    IF req.semantic_threshold.n > 0
    THEN ApplyThreshold(hit.chunks,
                        [i \in DOMAIN hit.scores |-> Decimal(hit.scores[i], 0)],
                        req.semantic_threshold)
    ELSE [chunks |-> hit.chunks,
          scores |-> [i \in DOMAIN hit.scores |-> Decimal(hit.scores[i], 0)]]

\* Query from the answer of QuerySimilarChunks to the parent augmentation:
\* the responses that end the request there, none when chunks are left.
EarlyResponses(req, hit) ==
    IF hit.err THEN {ErrorResponse("search")}
    ELSE IF Len(hit.chunks) = 0
    THEN {EmptyResponse("I couldn't find any relevant information for your query.")}
    ELSE IF Len(Kept(req, hit).chunks) = 0
    THEN {EmptyResponse("No chunks met the semantic similarity threshold.")}
    ELSE {}

defaultTopK == 5

\* req.TopK after the defaults, and the query text the embedding is made of.
TopK(req) == IF req.top_k <= 0 THEN defaultTopK ELSE req.top_k
QueryText(req) == IF req.query_expansion THEN expandQuery(req.query) ELSE req.query

\* The query requests of the model.
QueryRequest(name, query, topK, reranker, filters, parents, expansion, threshold) ==
    [collection_name |-> name, query |-> query, reranker_enabled |-> reranker,
     include_parents |-> parents, semantic_threshold |-> threshold,
     top_k |-> topK, query_expansion |-> expansion,
     metadata_filters |-> filters]

QueryRequests ==
    {QueryRequest("a", "weather", 0, FALSE, NoFilter, FALSE, FALSE, Decimal(0, 0)),
     QueryRequest("a", "senior role", 1, TRUE, NoFilter, FALSE, FALSE, Decimal(0, 0)),
     QueryRequest("a", "skills", 1, TRUE, NoFilter, TRUE, TRUE, Decimal(0, 0)),
     QueryRequest("a", "senior role", 2, FALSE, NoFilter, TRUE, FALSE, Decimal(95, 2)),
     QueryRequest("a", "skills", 2, FALSE, [key \in {"chunk_type"} |-> "section"],
                  FALSE, FALSE, Decimal(0, 0)),
     QueryRequest("b", "weather", 1, FALSE, NoFilter, FALSE, FALSE, Decimal(5, 1)),
     QueryRequest("a", "senior role", 1, FALSE, NoFilter, TRUE, FALSE, Decimal(0, 0)),
     QueryRequest("b", "senior role", 2, TRUE, NoFilter, TRUE, TRUE, Decimal(0, 0))}

\* embeddingClient.GetEmbedding on the query texts of the model: what the
\* embedding service answers for a text, an expanded query being another text
\* than the query it comes from.
QueryEmbedding(query) ==
    CASE query = "senior role" -> <<1>>
      [] query = "weather" -> <<1>>
      [] query = "skills" -> <<0, 0>>
      [] OTHER -> <<-1>>

QueryFaults == {"none", "embedding_service", "llm"}

\* The Query calls of the model: every request on services that answer, and
\* two of the requests, one of them with include_parents, on an embedding
\* service or a language model that fails.  For a Query that looks parents
\* up, the failure of the language model is chosen when generateAnswer runs,
\* in LookUpParents.
QueryCalls ==
    {[fault |-> "none", req |-> req] : req \in QueryRequests}
        \cup {[fault |-> fault, req |-> req] :
                 fault \in QueryFaults \ {"none"},
                 req \in {r \in QueryRequests :
                             r.query = "senior role" /\ r.top_k = 1}}

\* The return of Query to its request: the response, and with it what the
\* call worked on (the answer of the search, the lists after the parent
\* augmentation, the chunk table the search read, the number of look-ups).
QueryReturns(req, fault, q, response) ==
    result' = [fault |-> fault, req |-> req,
               hit |-> q.hit, snapshot |-> q.snapshot,
               lookups |-> q.lookups,
               op |-> "service_query",
               response |-> response,
               query_embedding |-> QueryEmbedding(QueryText(req)),
               augmented |-> [chunks |-> q.acc.chunks, scores |-> q.acc.scores]]

\* Query when QuerySimilarChunks has answered hit: the chunks it returned are
\* held as they were read.
StartQuery(req, hit) ==
    [i |-> 1, rows |-> {}, pc |-> "parents", req |-> req, hit |-> hit,
     acc |-> NoChunks,
     hitRows |-> {c \in enhanced_chunks : c.id \in Range(hit.chunks)},
     snapshot |-> enhanced_chunks, lookups |-> 0]

\* The loop of includeParentChunks up to the next chunk that names a parent:
\* the passes for chunks without parent read nothing from the store.
RECURSIVE WithoutLookUp(_)
WithoutLookUp(q) ==
    IF q.i > Len(Kept(q.req, q.hit).chunks) THEN q
    ELSE IF ChunkOf(q.hitRows, Kept(q.req, q.hit).chunks[q.i]).parent_chunk_id # NoParent
    THEN q
    ELSE WithoutLookUp(
             [q EXCEPT !.i = @ + 1,
                       !.acc = AddUnseen(@, Kept(q.req, q.hit).chunks[q.i],
                                         Kept(q.req, q.hit).scores[q.i]),
                       !.rows = IF Kept(q.req, q.hit).chunks[q.i] \in q.acc.seen THEN @
                                ELSE @ \cup {ChunkOf(q.hitRows,
                                                     Kept(q.req, q.hit).chunks[q.i])}])

\* RAGService.Query from the request to its first look-up of a parent chain:
\* the defaults, the query expansion, GetEmbedding, QuerySimilarChunks (one
\* SELECT), the semantic threshold and the passes of includeParentChunks for
\* chunks without parent.  The request returns in this step when a call
\* fails, when no chunk is left, when include_parents is not set and when no
\* chunk names a parent; re-ranking, the cut to TopK and generateAnswer read
\* nothing from the store.  Otherwise its goroutine goes on with the
\* look-ups, which take the store as it is when they run.  One Query is in
\* progress at a time: a Query writes nothing that another one reads.
CallQuery ==
    /\ calls.query.pc = "idle"
    /\ UNCHANGED <<collections, documents, enhanced_chunks, chunk_embeddings,
                   nextDoc, embedding, chunker>>
    /\ \E call \in QueryCalls : LET req == call.req  fault == call.fault  IN
          IF fault = "embedding_service"
          THEN /\ QueryReturns(req, fault, IdleQuery, ErrorResponse("query_embedding"))
               /\ UNCHANGED calls
          ELSE \E hit \in QuerySimilarChunks(documents, enhanced_chunks,
                                            chunk_embeddings, req.collection_name,
                                            QueryEmbedding(QueryText(req)),
                                            TopK(req) * 2, req.metadata_filters) :
                  LET kept == Kept(req, hit)
                      start == StartQuery(req, hit)
                      whole == [start EXCEPT
                                   !.i = Len(kept.chunks) + 1,
                                   !.acc = [chunks |-> kept.chunks,
                                            scores |-> kept.scores,
                                            seen |-> Range(kept.chunks)],
                                   !.rows = {c \in start.hitRows :
                                               c.id \in Range(kept.chunks)}]
                      next == WithoutLookUp(start)
                  IN IF EarlyResponses(req, hit) # {}
                     THEN /\ \E response \in EarlyResponses(req, hit) :
                                QueryReturns(req, fault, start, response)
                          /\ UNCHANGED calls
                     ELSE IF ~req.include_parents
                     THEN /\ \E response \in
                                  RerankAndRespond(whole.rows, req, QueryText(req),
                                                   TopK(req), kept.chunks, kept.scores,
                                                   fault) :
                                QueryReturns(req, fault, whole, response)
                          /\ UNCHANGED calls
                     ELSE IF next.i > Len(kept.chunks)
                     THEN /\ \E response \in
                                  RerankAndRespond(next.rows, req, QueryText(req),
                                                   TopK(req), next.acc.chunks,
                                                   next.acc.scores, fault) :
                                QueryReturns(req, fault, next, response)
                          /\ UNCHANGED calls
                     ELSE /\ fault = "none"
                          /\ calls' = [calls EXCEPT !.query = next]
                          /\ result' = [op |-> "none"]

\* One pass of the loop of includeParentChunks for a chunk that names a
\* parent: GetChunkWithParents (one SELECT) on the store as it is now, then
\* the passes for the chunks without parent that follow.  After the last
\* chunk come the re-ranking, the cut, generateAnswer (fault is its failure)
\* and the return of Query.
LookUpParents ==
    /\ calls.query.pc = "parents"
    /\ UNCHANGED <<collections, documents, enhanced_chunks, chunk_embeddings,
                   nextDoc, embedding, chunker>>
    /\ LET q == calls.query
           kept == Kept(q.req, q.hit)
           chunk == ChunkOf(q.hitRows, kept.chunks[q.i])
           acc == IncludeChunk(enhanced_chunks, chunk, kept.scores[q.i], q.acc)
           found == {c \in enhanced_chunks :
                        c.id \in (acc.seen \ q.acc.seen) \ {chunk.id}}
           self == IF chunk.id \in q.acc.seen THEN {} ELSE {chunk}
           next == WithoutLookUp([q EXCEPT !.i = @ + 1, !.acc = acc,
                                           !.rows = (@ \cup self) \cup found,
                                           !.lookups = @ + 1])
       IN IF next.i > Len(kept.chunks)
          THEN /\ \E fault \in QueryFaults \ {"embedding_service"} :
                     \E response \in
                         RerankAndRespond(next.rows, q.req, QueryText(q.req),
                                          TopK(q.req), next.acc.chunks,
                                          next.acc.scores, fault) :
                        QueryReturns(q.req, fault, next, response)
               /\ calls' = [calls EXCEPT !.query = IdleQuery]
          ELSE /\ calls' = [calls EXCEPT !.query = next]
               /\ result' = [op |-> "none"]

ServiceNext ==
    \/ CallAddDocument
    \/ CallAddParentDocument
    \/ ProbeTable
    \/ ProbeInsert
    \/ DropTable
    \/ CreateTable
    \/ CleanUpProbe
    \/ InsertTransaction
    \/ CallDeleteDocument
    \/ CallQuery
    \/ LookUpParents

\* The store under ingests, deletes of documents and queries of the RAG
\* service.
ServiceSpec == Init /\ [][ServiceNext]_vars

(***************************************************************************)
(* VectorDB.AddEmbeddings called from several request goroutines.  The     *)
(* store has no lock of its own and db.conn is a connection pool, so the   *)
(* statements of ensureEmbeddingTableExists (which run outside any         *)
(* transaction) of one call interleave with the statements of another      *)
(* call; the insert transaction of a call is one step.                     *)
(***************************************************************************)
ConcChunk(p, i, vec) == [embedding |-> vec, id |-> <<p, i>>]

\* The chunk lists goroutine p may pass to AddEmbeddings: none, one chunk
\* without embedding, one embedded chunk, two chunks of different lengths.
ConcBatches(p) ==
    {<< >>, <<ConcChunk(p, 1, << >>)>>, <<ConcChunk(p, 1, <<1>>), ConcChunk(p, 2, <<0, 4>>)>>}
        \cup {<<ConcChunk(p, 1, vec)>> : vec \in Vectors}

\* The embedding table before the concurrent calls: not created yet, or as
\* an earlier AddEmbeddings call left it.
InitialTables ==
    {NoTable} \cup {AddEmbeddings(NoTable, <<ConcChunk(3, 1, vec)>>, FALSE).table :
                       vec \in Vectors}

ConcInit ==
    /\ collections = {}
    /\ documents = {}
    /\ enhanced_chunks = {}
    /\ chunk_embeddings \in InitialTables
    /\ nextDoc = 0
    /\ result = [op |-> "none"]
    /\ embedding = NoCall
    /\ chunker = NoCall
    /\ calls = [query |-> IdleQuery, start |-> chunk_embeddings,
                of |-> [p \in Procs |-> IdleCall]]

\* AddEmbeddings up to the call of ensureEmbeddingTableExists: no chunk
\* returns nil, no embedding in any chunk returns an error.
BeginAddEmbeddings ==
    \E p \in Procs : \E chunks \in ConcBatches(p) :
        /\ calls.of[p].pc = "idle"
        /\ calls' = [calls EXCEPT !.of[p] =
              [@ EXCEPT !.chunks = chunks,
                        !.embeddingDim = EmbeddingDim(chunks),
                        !.pc = IF Len(chunks) = 0 \/ EmbeddingDim(chunks) = 0
                               THEN "returned" ELSE "probe_table",
                        !.err = Len(chunks) # 0 /\ EmbeddingDim(chunks) = 0]]
        /\ UNCHANGED chunk_embeddings
        /\ result' = [op |-> "none"]
        /\ ConcUnchanged


ConcNext ==
    \/ BeginAddEmbeddings
    \/ ProbeTable
    \/ ProbeInsert
    \/ DropTable
    \/ CreateTable
    \/ CleanUpProbe
    \/ InsertTransaction

\* Two request goroutines, each in one call of AddEmbeddings.
ConcSpec == ConcInit /\ [][ConcNext]_vars

(***************************************************************************)
(* The embedding client, core/embedding_service.go.                        *)
(***************************************************************************)
maxTokensPerBatch == 8000
maxCharsPerToken == 4
maxBatchSizeLimit == 64
minBatchSize == 1
maxRetries == 3

\* config.AppConfig.EmbeddingModel as LoadConfig sets it by default.
AppConfigEmbeddingModel == "your-embedding-model-name"

\* Bounds: the longest list of texts drawn from TextLengths, and the length
\* of the vectors the endpoint serves.
MaxTexts == 3
ServedDimension == 3

\* A text is modelled by len(text), its number of characters: the batching
\* and the endpoint's size limit look at nothing else, and texts of
\* different lengths are different texts.  12000 + 20000 characters are just
\* within the token estimate of one batch, 40 more are not, and 40000
\* characters are more than one batch may hold.
TextLengths == {40, 12000, 20000, 40000}
FiveTexts == <<40, 41, 42, 43, 44>>
ManyTexts == [i \in 1..(maxBatchSizeLimit + 1) |-> 40 + i]
TextLists ==
    UNION {[1..n -> TextLengths] : n \in 0..MaxTexts} \cup {FiveTexts, ManyTexts}

ModelNames == {"", "nomic-embed-text-v1.5", "mxbai-embed-large", "custom-model"}

\* The embedding endpoint: it rejects as too large a request of more than
\* maxTexts texts or of more than maxChars characters, it fails with a server
\* error the requests whose number (counted from 1 within one call of
\* GetEmbeddings) is in failing, and it lists the data items of its response
\* in input order or in reverse order.
Endpoints ==
    [maxTexts : {2, maxBatchSizeLimit}, maxChars : {30000, 100000},
     failing : {{}, {1}, {2}, {1, 2}, {1, 2, 3}}, reversed : BOOLEAN]

\* The vector the endpoint computes for a text; no coordinate is zero.
Embedding(text) == [i \in 1..ServedDimension |-> text + i]

RECURSIVE SumChars(_, _)
SumChars(texts, i) ==
    IF i > Len(texts) THEN 0 ELSE texts[i] + SumChars(texts, i + 1)

\* POST {base_url}/embeddings, request number n of the call.
Endpoint(ep, texts, n) ==
    IF n \in ep.failing
    THEN [status |-> 500, body |-> "internal server error", data |-> <<>>]
    ELSE IF Len(texts) > ep.maxTexts \/ SumChars(texts, 1) > ep.maxChars
    THEN [status |-> 500, body |-> "input is too large", data |-> <<>>]
    ELSE [status |-> 200, body |-> "",
          data |-> [j \in 1..Len(texts) |->
                       LET index == IF ep.reversed THEN Len(texts) - j ELSE j - 1
                       IN [embedding |-> Embedding(texts[index + 1]), index |-> index]]]

\* sendEmbeddingRequest: the error of a failure status carries the body; the
\* embeddings of a response are put at the positions their index fields name.
sendEmbeddingRequest(texts, ep, n) ==
    LET resp == Endpoint(ep, texts, n)
        data == resp.data
    IN IF resp.status # 200 THEN [embeddings |-> <<>>, err |-> resp.body]
       ELSE IF Len(data) # Len(texts)
       THEN [embeddings |-> <<>>, err |-> "mismatch in number of embeddings"]
       ELSE IF \E j \in DOMAIN data : data[j].index < 0 \/ data[j].index >= Len(texts)
       THEN [embeddings |-> <<>>, err |-> "embedding data index out of bounds"]
       ELSE [embeddings |->
                [i \in 1..Len(texts) |->
                    LET hits == {j \in DOMAIN data : data[j].index = i - 1}
                    IN IF hits = {} THEN <<>>
                       ELSE data[CHOOSE j \in hits : \A h \in hits : h <= j].embedding],
             err |-> "none"]

\* isOversizedBatchError looks for these substrings in the error text; the
\* error texts of the model are whole indicators or contain none.
oversizedIndicators ==
    {"too large", "input is too large", "increase the physical batch size",
     "context length exceeded", "maximum context length", "token limit",
     "input size"}
isOversizedBatchError(err) == err \in oversizedIndicators

getEmbeddingDimensionDefaultOnly(modelName) == 1024

getEmbeddingDimension(modelName) ==
    CASE modelName = "mxbai-embed-large" -> 1024
      [] modelName = "mxbai-embed-large:large" -> 1024
      [] modelName = "nomic-embed-text-v1.5" -> 768
      [] modelName = "text-embedding-ada-002" -> 1536
      [] modelName = "text-embedding-3-small" -> 1536
      [] modelName = "text-embedding-3-large" -> 3072
      [] OTHER -> 1024

\* make([]float32, dimension)
Placeholder(dimension) == [i \in 1..dimension |-> 0]

CombineHalvesSwapped(firstEmbeddings, secondEmbeddings) ==
    secondEmbeddings \o firstEmbeddings

\* append(firstEmbeddings, secondEmbeddings...)
CombineHalves(firstEmbeddings, secondEmbeddings) ==
    firstEmbeddings \o secondEmbeddings

\* processBatchWithRetry, from its attempt-th pass through the retry loop on.
\* st counts the requests sent so far in the call and records the waits
\* (seconds slept) and, per request, the batch, the attempt and the error.
RECURSIVE processBatchWithRetry(_, _, _, _, _)

\* The end of the split: the error of the second half, or the combined
\* embeddings of the two halves.
JoinHalves(first, second) ==
    IF second.err # "none" THEN second
    ELSE [embeddings |-> CombineHalves(first.embeddings, second.embeddings),
          err |-> "none",
          st |-> second.st]

\* The split after the first half was processed: its error, or the second
\* half processed after it.
ProcessSecondHalf(first, secondHalf, modelName, ep) ==
    IF first.err # "none" THEN first
    ELSE JoinHalves(first,
                    processBatchWithRetry(secondHalf, modelName, ep, first.st, 0))

\* What follows a request that answered sent.
AfterRequest(sent, texts, modelName, ep, st, attempt) ==
    IF sent.err = "none"
    THEN [embeddings |-> sent.embeddings, err |-> "none", st |-> st]
    ELSE IF isOversizedBatchError(sent.err) /\ Len(texts) = 1
    THEN [embeddings |-> <<Placeholder(getEmbeddingDimension(modelName))>>,
          err |-> "none",
          st |-> st]
    ELSE IF isOversizedBatchError(sent.err) /\ Len(texts) > minBatchSize
    THEN ProcessSecondHalf(
             processBatchWithRetry(SubSeq(texts, 1, Len(texts) \div 2),
                                   modelName, ep, st, 0),
             SubSeq(texts, Len(texts) \div 2 + 1, Len(texts)), modelName, ep)
    ELSE IF attempt = maxRetries - 1 \/ Len(texts) <= minBatchSize
    THEN [embeddings |-> <<>>, err |-> sent.err, st |-> st]
    ELSE processBatchWithRetry(texts, modelName, ep,
                               [st EXCEPT !.waits = Append(@, attempt + 1)],
                               attempt + 1)

\* The request of one attempt, recorded.
RecordRequest(sent, texts, st, attempt) ==
    [waits |-> st.waits, requests |-> st.requests + 1,
     log |-> Append(st.log, [err |-> sent.err, texts |-> texts, attempt |-> attempt])]

SendAndGoOn(sent, texts, modelName, ep, st, attempt) ==
    AfterRequest(sent, texts, modelName, ep, RecordRequest(sent, texts, st, attempt),
                 attempt)

processBatchWithRetry(texts, modelName, ep, st, attempt) ==
    SendAndGoOn(sendEmbeddingRequest(texts, ep, st.requests + 1),
                texts, modelName, ep, st, attempt)

\* The inner loop of createAdaptiveBatches for the batch that starts at text
\* i (counted from 0): how many texts it takes and their characters.
RECURSIVE FillBatch(_, _, _, _)
FillBatch(texts, i, batchSize, currentChars) ==
    IF ~(i + batchSize < Len(texts) /\ batchSize < maxBatchSizeLimit)
    THEN [batchSize |-> batchSize, currentChars |-> currentChars]
    ELSE LET textChars == texts[i + batchSize + 1]
             estimatedTokens == (currentChars + textChars) \div maxCharsPerToken
         IN IF estimatedTokens > maxTokensPerBatch /\ batchSize > 0
            THEN [batchSize |-> batchSize, currentChars |-> currentChars]
            ELSE IF textChars \div maxCharsPerToken > maxTokensPerBatch
            THEN [batchSize |-> IF batchSize = 0 THEN 1 ELSE batchSize,
                  currentChars |-> currentChars]
            ELSE FillBatch(texts, i, batchSize + 1, currentChars + textChars)

RECURSIVE createAdaptiveBatchesFrom(_, _)
createAdaptiveBatchesFrom(texts, i) ==
    IF ~(i < Len(texts)) THEN <<>>
    ELSE LET filled == FillBatch(texts, i, 0, 0)
         IN <<[Texts |-> SubSeq(texts, i + 1, i + filled.batchSize),
               StartIndex |-> i, TotalChars |-> filled.currentChars]>>
            \o createAdaptiveBatchesFrom(texts, i + filled.batchSize)

createAdaptiveBatches(texts) == createAdaptiveBatchesFrom(texts, 0)

\* allEmbeddings[batch.StartIndex + i] = embedding, for the positions that
\* exist.
PlaceEmbeddings(allEmbeddings, startIndex, embeddings) ==
    [g \in 1..Len(allEmbeddings) |->
        IF g - 1 >= startIndex /\ g - 1 < startIndex + Len(embeddings)
        THEN embeddings[g - startIndex]
        ELSE allEmbeddings[g]]

\* The loop of GetEmbeddings over the batches, from batch number b on.
RECURSIVE ProcessBatches(_, _, _, _, _, _)

\* What follows batch b, processed with outcome done.
AfterBatch(done, batches, b, allEmbeddings, modelName, ep) ==
    IF done.err # "none" THEN done
    ELSE ProcessBatches(batches, b + 1,
                        PlaceEmbeddings(allEmbeddings, batches[b].StartIndex,
                                        done.embeddings),
                        modelName, ep, done.st)

ProcessBatches(batches, b, allEmbeddings, modelName, ep, st) ==
    IF b > Len(batches)
    THEN [embeddings |-> allEmbeddings, err |-> "none", st |-> st]
    ELSE AfterBatch(processBatchWithRetry(batches[b].Texts, modelName, ep, st, 0),
                    batches, b, allEmbeddings, modelName, ep)

\* The final validation of GetEmbeddings.
ValidateEmbeddings(done) ==
    IF done.err # "none" THEN done
    ELSE IF \E i \in DOMAIN done.embeddings : Len(done.embeddings[i]) = 0
    THEN [embeddings |-> <<>>, err |-> "embedding was not populated",
          st |-> done.st]
    ELSE done

GetEmbeddings(texts, modelName, ep) ==
    LET model == IF modelName = "" THEN AppConfigEmbeddingModel ELSE modelName
        st == [waits |-> <<>>, requests |-> 0, log |-> <<>>]
    IN IF Len(texts) = 0 THEN [embeddings |-> <<>>, err |-> "none", st |-> st]
       ELSE ValidateEmbeddings(
                ProcessBatches(createAdaptiveBatches(texts), 1,
                               [i \in 1..Len(texts) |-> <<>>], model, ep, st))

\* A caller is about to call GetEmbeddings(texts, model) while the endpoint
\* behaves as endpoint says.
EmbInit ==
    /\ EmptyStore
    /\ chunker = NoCall
    /\ calls = NoCalls
    /\ embedding \in [pc : {"call"}, texts : TextLists, model : ModelNames,
                      endpoint : Endpoints]

CallGetEmbeddings ==
    /\ embedding.pc = "call"
    /\ LET out == GetEmbeddings(embedding.texts, embedding.model, embedding.endpoint)
       IN embedding' = [embeddings |-> out.embeddings, err |-> out.err,
                        pc |-> "returned", texts |-> embedding.texts,
                        waits |-> out.st.waits, requests |-> out.st.requests,
                        log |-> out.st.log, model |-> embedding.model,
                        endpoint |-> embedding.endpoint]
    /\ UNCHANGED <<collections, documents, enhanced_chunks, chunk_embeddings,
                   nextDoc, result, chunker, calls>>

EmbNext == CallGetEmbeddings

\* One call of the embedding client.
EmbSpec == EmbInit /\ [][EmbNext]_vars

(***************************************************************************)
(* The adaptive chunker (package core, ProcessDocumentContent).            *)
(***************************************************************************)
minMeaningfulChunkSize == 200
maxChunkSize == 1500
preferredChunkSize == 800
verySmallDoc == 1000
smallDoc == 3000
mediumDoc == 10000
largeDoc == 50000

\* Bound: the chunk lists and the chunk counters of a run stop growing at
\* MaxChunks.  No run of the model that returns comes near it.
MaxChunks == 16

\* Go's integer division and int() conversion truncate toward zero.
Quot(a, b) == IF a >= 0 THEN a \div b ELSE -((-a) \div b)

Min(a, b) == IF a <= b THEN a ELSE b
Max(a, b) == IF a >= b THEN a ELSE b

\* The documents of the model are unstructured prose: sentences sentences of
\* size letters each, joined by ". "; no line break, no heading, no section
\* word, no paragraph break.  A document without a sentence is blank: size
\* spaces and nothing else, the empty content when size is 0.
Contents ==
    {[sentences |-> 0, size |-> 0],
     [sentences |-> 0, size |-> 3],
     [sentences |-> 0, size |-> 700],
     [sentences |-> 2, size |-> 16],
     [sentences |-> 1, size |-> 300],
     [sentences |-> 1, size |-> 700],
     [sentences |-> 4, size |-> 200],
     [sentences |-> 5, size |-> 400],
     [sentences |-> 3, size |-> 1600],
     [sentences |-> 1, size |-> 12000],
     [sentences |-> 1, size |-> 12001],
     [sentences |-> 30, size |-> 400]}

\* len(content)
ContentLen(content) ==
    IF content.sentences = 0 THEN content.size
    ELSE content.sentences * content.size + 2 * (content.sentences - 1)

\* content[p], p counted from 0
CharAt(content, p) ==
    LET o == p % (content.size + 2)
    IN IF content.sentences = 0 THEN " "
       ELSE IF o < content.size THEN "x" ELSE IF o = content.size THEN "." ELSE " "

\* unicode.IsSpace on the characters of the model's documents
IsSpace(ch) == ch = " "

\* strings.TrimSpace(content[from:to]), as the slice that is left.
RECURSIVE TrimLeft(_, _, _)
TrimLeft(content, from, to) ==
    IF from < to /\ IsSpace(CharAt(content, from))
    THEN TrimLeft(content, from + 1, to) ELSE from

RECURSIVE TrimRight(_, _, _)
TrimRight(content, from, to) ==
    IF from < to /\ IsSpace(CharAt(content, to - 1))
    THEN TrimRight(content, from, to - 1) ELSE to

TrimSpace(content, from, to) ==
    LET f == TrimLeft(content, from, to)
    IN [from |-> f, to |-> TrimRight(content, f, to)]

\* The chunking configs a caller sends; a nil config is the zero config.
ZeroConfig ==
    [Strategy |-> "", FixedSize |-> 0, Overlap |-> 0, SentenceWindowSize |-> 0,
     MinChunkSize |-> 0, MaxChunkSize |-> 0]

\* The config AddDocumentHandler fills in when the request carries none.
HandlerDefaultConfig ==
    [Strategy |-> "structural", FixedSize |-> 500, Overlap |-> 50,
     SentenceWindowSize |-> 0, MinChunkSize |-> 100, MaxChunkSize |-> 2000]

Configs ==
    {ZeroConfig,
     HandlerDefaultConfig,
     [ZeroConfig EXCEPT !.Strategy = "fixed_size", !.FixedSize = 300, !.Overlap = 1],
     [ZeroConfig EXCEPT !.Strategy = "parent_document", !.Overlap = -10],
     [ZeroConfig EXCEPT !.Strategy = "parent_document", !.Overlap = 1000],
     [ZeroConfig EXCEPT !.Strategy = "sentence_window", !.SentenceWindowSize = 1],
     [ZeroConfig EXCEPT !.Strategy = "sentence_window", !.SentenceWindowSize = 2],
     [ZeroConfig EXCEPT !.Strategy = "sentence_window", !.SentenceWindowSize = -1],
     [ZeroConfig EXCEPT !.Strategy = "semantic", !.MinChunkSize = 6000]}

\* analyzeDocument: the length and its category.  analyzeStructure finds no
\* structure in the documents of the model (no pattern matches, no "\n\n").
analyzeDocument(content) ==
    LET length == ContentLen(content)
    IN [Length |-> length,
        Category |-> IF length < verySmallDoc THEN "very_small"
                     ELSE IF length < smallDoc THEN "small"
                     ELSE IF length < mediumDoc THEN "medium"
                     ELSE IF length < largeDoc THEN "large"
                     ELSE "very_large",
        HasStructure |-> FALSE,
        StructureType |-> "none",
        Language |-> "en"]

\* math.Ceil(float64(length) / d)
CeilDiv(length, d) == (length + d - 1) \div d

calculateOptimalChunkCount(length) ==
    IF length < 600 THEN 1
    ELSE IF length < 1200 THEN 2
    ELSE IF length < 2000 THEN 3
    ELSE IF length < 4000 THEN 4
    ELSE IF length < 8000 THEN CeilDiv(length, 1500)
    ELSE CeilDiv(length, 1000)

\* A variant of the switch of adaptChunkingStrategy without the case of less
\* than 600 characters: every very small document gets the structural strategy.
StrategyForCategoryWithoutTiny(ch, config) ==
    LET optimalChunkCount == calculateOptimalChunkCount(ch.Length)
        targetChunkSize == Max(ch.Length \div optimalChunkCount, 400)
    IN CASE ch.Category = "very_small" ->
              [config EXCEPT !.Strategy = "structural",
                             !.MinChunkSize = Max(ch.Length \div 3, 250),
                             !.MaxChunkSize = ch.Length \div 2]
         [] ch.Category = "small" /\ ch.HasStructure ->
              [config EXCEPT !.Strategy = "structural",
                             !.MinChunkSize = targetChunkSize,
                             !.MaxChunkSize = targetChunkSize + 300]
         [] ch.Category = "small" /\ ~ch.HasStructure ->
              [config EXCEPT !.Strategy = "sentence_window",
                             !.SentenceWindowSize = 4,
                             !.MinChunkSize = targetChunkSize]
         [] ch.Category = "medium" ->
              [config EXCEPT !.Strategy =
                  IF ch.StructureType = "hierarchical" THEN "parent_document"
                  ELSE IF ch.HasStructure THEN "structural"
                  ELSE "semantic"]
         [] ch.Category \in {"large", "very_large"} ->
              [config EXCEPT !.Strategy = "parent_document",
                             !.MaxChunkSize = 1200, !.MinChunkSize = 400]

\* The switch of adaptChunkingStrategy on the category of the document.
StrategyForCategory(ch, config) ==
    LET optimalChunkCount == calculateOptimalChunkCount(ch.Length)
        targetChunkSize == Max(ch.Length \div optimalChunkCount, 400)
    IN CASE ch.Category = "very_small" /\ ch.Length < 600 ->
              [config EXCEPT !.Strategy = "fixed_size", !.FixedSize = ch.Length,
                             !.Overlap = 0, !.MinChunkSize = ch.Length]
         [] ch.Category = "very_small" /\ ch.Length >= 600 ->
              [config EXCEPT !.Strategy = "structural",
                             !.MinChunkSize = Max(ch.Length \div 3, 250),
                             !.MaxChunkSize = ch.Length \div 2]
         [] ch.Category = "small" /\ ch.HasStructure ->
              [config EXCEPT !.Strategy = "structural",
                             !.MinChunkSize = targetChunkSize,
                             !.MaxChunkSize = targetChunkSize + 300]
         [] ch.Category = "small" /\ ~ch.HasStructure ->
              [config EXCEPT !.Strategy = "sentence_window",
                             !.SentenceWindowSize = 4,
                             !.MinChunkSize = targetChunkSize]
         [] ch.Category = "medium" ->
              [config EXCEPT !.Strategy =
                  IF ch.StructureType = "hierarchical" THEN "parent_document"
                  ELSE IF ch.HasStructure THEN "structural"
                  ELSE "semantic"]
         [] ch.Category \in {"large", "very_large"} ->
              [config EXCEPT !.Strategy = "parent_document",
                             !.MaxChunkSize = 1200, !.MinChunkSize = 400]

\* adaptChunkingStrategy: the strategy of the category, then the defaults
\* for the fields that are still zero, each from the fields set before it.
adaptChunkingStrategy(ch, config) ==
    LET c1 == StrategyForCategory(ch, config)
        c2 == IF c1.MinChunkSize # 0 THEN c1
              ELSE [c1 EXCEPT !.MinChunkSize =
                       IF ch.Length < 2000
                       THEN Max(ch.Length \div 4, 200)
                       ELSE minMeaningfulChunkSize]
        c3 == IF c2.MaxChunkSize # 0 THEN c2
              ELSE [c2 EXCEPT !.MaxChunkSize =
                       IF ch.Length < 3000 THEN ch.Length \div 2 ELSE maxChunkSize]
        c4 == IF c3.FixedSize # 0 THEN c3
              ELSE [c3 EXCEPT !.FixedSize =
                       IF ch.Length < 2000
                       THEN ch.Length \div calculateOptimalChunkCount(ch.Length)
                       ELSE preferredChunkSize]
    IN IF c4.Overlap # 0 THEN c4
       ELSE [c4 EXCEPT !.Overlap =
                IF ch.Length < 1500 THEN Quot(c4.FixedSize * 10, 100)
                ELSE Quot(c4.FixedSize * 15, 100)]

\* append, and a counter's increment, up to the bound of the model
Keep(list, chunk) == IF Len(list) < MaxChunks THEN Append(list, chunk) ELSE list
Count(n) == IF n < MaxChunks THEN n + 1 ELSE n

\* An EnhancedChunk: its id is the number of the uuid.New call that made it,
\* its text is known by its length, its section is a name and a number
\* ("section_%d"; 0 where the name has no number).
Chunk(id, chunkType, section, startPos, endPos, chunkIndex, textLen) ==
    [ID |-> id, ChunkType |-> chunkType, Section |-> section,
     StartPos |-> startPos, EndPos |-> endPos, ChunkIndex |-> chunkIndex,
     TextLen |-> textLen, ParentChunkID |-> 0, ChildChunkIDs |-> <<>>]

\* A call ProcessDocumentContent(content, source, docType, config) that has
\* not begun, with the zero values of its locals.
NewRun(content, config) ==
    [i |-> 0, chunks |-> <<>>, err |-> "none", ids |-> 0, pc |-> "call",
     start |-> 0, parentChunks |-> <<>>, text |-> [from |-> 0, to |-> 0],
     content |-> content, config |-> config, chunkIndex |-> 0,
     characteristics |-> analyzeDocument(content), adaptive |-> config,
     parent |-> <<>>, children |-> <<>>,
     fixed |-> [FixedSize |-> 0, Overlap |-> 0], caller |-> "",
     parentStart |-> 0, parentEnd |-> 0, parentIndex |-> 0]

KeepAll(list, more) ==
    SubSeq(list \o more, 1, Min(Len(list) + Len(more), MaxChunks))

\* createFixedSizeChunks returns children to its caller: ProcessDocumentContent
\* goes on to post-processing; createParentDocumentChunks links the children
\* to the parent chunk, counts the parent and moves start to end.
ReturnFixedSizeChunks(r, children) ==
    IF r.caller = "process"
    THEN [r EXCEPT !.pc = "post_process", !.chunks = children, !.children = <<>>]
    ELSE LET linked == [j \in DOMAIN children |->
                           [children[j] EXCEPT !.ParentChunkID = r.parent.ID,
                                               !.Section = r.parent.Section,
                                               !.ChunkType = "child"]]
             parent == [r.parent EXCEPT !.ChildChunkIDs =
                           [j \in DOMAIN children |-> children[j].ID]]
         IN [r EXCEPT !.pc = "parent_document",
                      !.parentChunks = Keep(@, parent),
                      !.chunks = KeepAll(@, linked),
                      !.children = <<>>,
                      !.parentIndex = Count(@),
                      !.parentStart = r.parentEnd]

\* createFixedSizeChunks(content[text.from:text.to], docID, fixed) up to its
\* loop: a content that fits in FixedSize is returned as one chunk.
EnterFixedSizeChunks(r, text, fixed, caller) ==
    LET len == text.to - text.from
        trimmed == TrimSpace(r.content, text.from, text.to)
        r1 == [r EXCEPT !.text = text, !.fixed = fixed, !.caller = caller,
                        !.start = 0, !.chunkIndex = 0, !.children = <<>>]
    IN IF len <= fixed.FixedSize
       THEN ReturnFixedSizeChunks(
                [r1 EXCEPT !.ids = Count(@)],
                <<Chunk(Count(r.ids), "fixed_size", <<"document", 0>>, 0, len, 0,
                        trimmed.to - trimmed.from)>>)
       ELSE [r1 EXCEPT !.pc = "fixed_size"]

\* One pass through the loop of createFixedSizeChunks, its condition included.
\* A negative start, or an end before start, is a slice out of range.
FixedSizeIteration(r) ==
    LET len == r.text.to - r.text.from
        start == r.start
        end0 == Min(start + r.fixed.FixedSize, len)
        low == Max(start + r.fixed.FixedSize - 50, start)
        spaces == {i \in (low + 1)..end0 : IsSpace(CharAt(r.content, r.text.from + i))}
        end == IF end0 < len /\ ~IsSpace(CharAt(r.content, r.text.from + end0))
                  /\ spaces # {}
               THEN CHOOSE i \in spaces : \A j \in spaces : j <= i
               ELSE end0
        trimmed == TrimSpace(r.content, r.text.from + start, r.text.from + end)
        textLen == trimmed.to - trimmed.from
        children == IF textLen > 0
                    THEN Keep(r.children,
                              Chunk(Count(r.ids), "fixed_size", <<"document", 0>>,
                                    start, end, r.chunkIndex, textLen))
                    ELSE r.children
        r1 == IF textLen > 0
              THEN [r EXCEPT !.children = children, !.ids = Count(@),
                             !.chunkIndex = Count(@)]
              ELSE r
    IN IF ~(start < len) THEN ReturnFixedSizeChunks(r, r.children)
       ELSE IF start < 0 \/ end0 < start THEN [r EXCEPT !.pc = "panic"]
       ELSE IF end - r.fixed.Overlap >= end THEN ReturnFixedSizeChunks(r1, children)
       ELSE [r1 EXCEPT !.start = end - r.fixed.Overlap]

\* createSentenceWindowChunks up to its loop.  The sentences are those of
\* the content, whatever slice of it the caller holds.
EnterSentenceWindowChunks(r) ==
    [r EXCEPT !.pc = "sentence_window", !.i = 0, !.chunkIndex = 0, !.chunks = <<>>]

windowSize(config) ==
    IF config.SentenceWindowSize = 0 THEN 3 ELSE config.SentenceWindowSize

\* len(sentences) after regexp.Split(content, -1): Split returns the whole
\* content as its one element when the pattern matches nowhere, which is the
\* case of a blank content, the empty one included.
SplitSentences(content) == IF content.sentences = 0 THEN 1 ELSE content.sentences

\* One pass through the loop of createSentenceWindowChunks, its condition and
\* its increment i += windowSize / 2 included.  windowText is trimmed: the
\* one element of a blank content leaves an empty text.
SentenceWindowIteration(r) ==
    LET n == SplitSentences(r.content)
        w == windowSize(r.adaptive)
        end == Min(r.i + w, n)
        count == end - r.i
        windowLen == IF count = 0 \/ r.content.sentences = 0 THEN 0
                     ELSE count * r.content.size + 2 * (count - 1)
        r1 == IF windowLen > 0
              THEN [r EXCEPT !.chunks =
                                Keep(@, Chunk(Count(r.ids), "sentence_window",
                                              <<"content", 0>>, 0, windowLen,
                                              r.chunkIndex, windowLen)),
                             !.ids = Count(@), !.chunkIndex = Count(@)]
              ELSE r
    IN IF ~(r.i < n) THEN [r EXCEPT !.pc = "post_process"]
       ELSE IF end < r.i THEN [r EXCEPT !.pc = "panic"]
       ELSE IF windowLen < r.adaptive.MinChunkSize /\ r.i + w < n
       THEN [r EXCEPT !.i = r.i + Quot(w, 2)]
       ELSE IF end >= n THEN [r1 EXCEPT !.pc = "post_process"]
       ELSE [r1 EXCEPT !.i = r.i + Quot(w, 2)]

\* createMinimalChunks: one chunk for a content within MinChunkSize; the
\* documents of the model have a single paragraph, so a longer one goes to
\* createSentenceWindowChunks.
createMinimalChunks(r) ==
    LET len == ContentLen(r.content)
        trimmed == TrimSpace(r.content, 0, len)
    IN IF len <= r.adaptive.MinChunkSize
       THEN [r EXCEPT !.pc = "post_process", !.ids = Count(@),
                      !.chunks = <<Chunk(Count(r.ids), "document", <<"complete", 0>>,
                                         0, len, 0, trimmed.to - trimmed.from)>>]
       ELSE EnterSentenceWindowChunks(r)

\* createSemanticChunks on the single paragraph of the document, which is
\* also the last one.
createSemanticChunks(r) ==
    LET len == ContentLen(r.content)
        para == TrimSpace(r.content, 0, len)
        paraLen == para.to - para.from
    IN IF paraLen > 0 /\ paraLen >= r.adaptive.MinChunkSize
       THEN [r EXCEPT !.pc = "post_process", !.ids = Count(@),
                      !.chunks = <<Chunk(Count(r.ids), "semantic", <<"content", 0>>,
                                         0, paraLen, 0, paraLen)>>]
       ELSE [r EXCEPT !.pc = "post_process", !.chunks = <<>>]

EnterParentDocumentChunks(r) ==
    [r EXCEPT !.pc = "parent_document", !.parentStart = 0, !.parentIndex = 0,
              !.parentChunks = <<>>, !.chunks = <<>>]

\* One pass through the loop of createParentDocumentChunks, its condition
\* included, up to the loop of the createFixedSizeChunks call it makes.  The
\* search for a paragraph boundary reads content[i:i+2] from i = end
\* downwards and finds none in the documents of the model; reading past the
\* end of content is a slice out of range.
ParentDocumentIteration(r) ==
    LET len == ContentLen(r.content)
        parentSize == r.adaptive.MaxChunkSize * 2
        start == r.parentStart
        end == Min(start + parentSize, len)
        searches == end < len /\ end > start + parentSize - 200 /\ end > start
        trimmed == TrimSpace(r.content, start, end)
        parentLen == trimmed.to - trimmed.from
        parent == Chunk(Count(r.ids), "parent", <<"section_", r.parentIndex + 1>>,
                        start, end, r.parentIndex, parentLen)
    IN IF ~(start < len)
       THEN [r EXCEPT !.pc = "post_process",
                      !.chunks = KeepAll(r.parentChunks, r.chunks)]
       ELSE IF (searches /\ end + 2 > len) \/ end < start
       THEN [r EXCEPT !.pc = "panic"]
       ELSE IF parentLen > 0
       THEN EnterFixedSizeChunks(
                [r EXCEPT !.parent = parent, !.ids = Count(@), !.parentEnd = end],
                trimmed,
                [FixedSize |-> r.adaptive.MinChunkSize,
                 Overlap |-> Quot(r.adaptive.Overlap, 2)],
                "parent")
       ELSE [r EXCEPT !.parentStart = end]

\* ProcessDocumentContent up to the loop of the strategy it applies.
\* adaptChunkingStrategy gives an unstructured document the structural
\* strategy only when it is very small.
StartProcessing(r) ==
    LET len == ContentLen(r.content)
        adaptive == adaptChunkingStrategy(r.characteristics, r.config)
        r1 == [r EXCEPT !.adaptive = adaptive]
    IN IF len = 0
       THEN [r EXCEPT !.pc = "returned", !.err = "content cannot be empty"]
       ELSE CASE adaptive.Strategy = "fixed_size" ->
                    EnterFixedSizeChunks(r1, [from |-> 0, to |-> len],
                                         [FixedSize |-> adaptive.FixedSize,
                                          Overlap |-> adaptive.Overlap],
                                         "process")
              [] adaptive.Strategy = "structural"
                    /\ r.characteristics.Category = "very_small" ->
                    createMinimalChunks(r1)
              [] adaptive.Strategy = "semantic" -> createSemanticChunks(r1)
              [] adaptive.Strategy = "sentence_window" -> EnterSentenceWindowChunks(r1)
              [] adaptive.Strategy = "parent_document" -> EnterParentDocumentChunks(r1)

\* The first loop of postProcessChunks: a chunk of less than
\* minMeaningfulChunkSize / 2 characters that is not the last one is merged
\* into the next chunk and dropped.
RECURSIVE MergeSmallChunks(_, _, _)
MergeSmallChunks(chunks, i, filtered) ==
    IF i > Len(chunks) THEN filtered
    ELSE IF chunks[i].TextLen < minMeaningfulChunkSize \div 2 /\ i < Len(chunks)
    THEN MergeSmallChunks(
             [chunks EXCEPT ![i + 1].TextLen = chunks[i].TextLen + 2 + @,
                            ![i + 1].StartPos = chunks[i].StartPos],
             i + 1, filtered)
    ELSE MergeSmallChunks(chunks, i + 1, Append(filtered, chunks[i]))

SectionKey(chunk) ==
    IF chunk.Section = <<"", 0>> THEN <<"document", 0>> ELSE chunk.Section

\* The orders in which a range over the map sectionGroups can visit its keys.
SectionOrders(chunks) ==
    LET keys == {SectionKey(chunks[j]) : j \in DOMAIN chunks}
    IN {order \in [1..Cardinality(keys) -> keys] :
           \A a, b \in DOMAIN order : a # b => order[a] # order[b]}

RECURSIVE SumTextLen(_, _)
SumTextLen(chunks, i) ==
    IF i > Len(chunks) THEN 0 ELSE chunks[i].TextLen + SumTextLen(chunks, i + 1)

\* addParentChildRelationships, from the k-th section group of the order on:
\* a group of more than two chunks gets a new parent chunk before it.
RECURSIVE addParentChildRelationships(_, _, _, _, _)
addParentChildRelationships(chunks, order, k, ids, enhanced) ==
    IF k > Len(order) THEN enhanced
    ELSE LET group == SelectSeq(chunks, LAMBDA c : SectionKey(c) = order[k])
             parent == [Chunk(Count(ids), "parent", order[k], 0, 0,
                              group[1].ChunkIndex,
                              SumTextLen(group, 1) + 2 * (Len(group) - 1))
                           EXCEPT !.ChildChunkIDs =
                               [j \in DOMAIN group |-> group[j].ID]]
         IN IF Len(group) > 2
            THEN addParentChildRelationships(
                     chunks, order, k + 1, Count(ids),
                     enhanced \o <<parent>> \o
                        [j \in DOMAIN group |->
                            [group[j] EXCEPT !.ParentChunkID = parent.ID]])
            ELSE addParentChildRelationships(chunks, order, k + 1, ids,
                                             enhanced \o group)

\* postProcessChunks for one order of the section groups.
PostProcess(chunks, characteristics, order, ids) ==
    LET filtered == MergeSmallChunks(chunks, 1, <<>>)
    IN IF characteristics.Category \in {"large", "very_large"}
       THEN addParentChildRelationships(filtered, order, 1, ids, <<>>)
       ELSE filtered

\* A caller is about to call ProcessDocumentContent(content, ..., config).
ChunkInit ==
    /\ EmptyStore
    /\ embedding = NoCall
    /\ calls = NoCalls
    /\ \E content \in Contents, config \in Configs :
          chunker = NewRun(content, config)

ProcessDocumentContent ==
    /\ chunker.pc = "call"
    /\ chunker' = StartProcessing(chunker)
    /\ UNCHANGED <<collections, documents, enhanced_chunks, chunk_embeddings,
                   nextDoc, result, embedding, calls>>

createFixedSizeChunks ==
    /\ chunker.pc = "fixed_size"
    /\ chunker' = FixedSizeIteration(chunker)
    /\ UNCHANGED <<collections, documents, enhanced_chunks, chunk_embeddings,
                   nextDoc, result, embedding, calls>>

createSentenceWindowChunks ==
    /\ chunker.pc = "sentence_window"
    /\ chunker' = SentenceWindowIteration(chunker)
    /\ UNCHANGED <<collections, documents, enhanced_chunks, chunk_embeddings,
                   nextDoc, result, embedding, calls>>

createParentDocumentChunks ==
    /\ chunker.pc = "parent_document"
    /\ chunker' = ParentDocumentIteration(chunker)
    /\ UNCHANGED <<collections, documents, enhanced_chunks, chunk_embeddings,
                   nextDoc, result, embedding, calls>>

\* The end of ProcessDocumentContent: postProcessChunks and the document.
postProcessChunks ==
    /\ chunker.pc = "post_process"
    /\ \E order \in SectionOrders(MergeSmallChunks(chunker.chunks, 1, <<>>)) :
          chunker' = [chunker EXCEPT
                         !.pc = "returned",
                         !.chunks = PostProcess(chunker.chunks,
                                                chunker.characteristics, order,
                                                chunker.ids)]
    /\ UNCHANGED <<collections, documents, enhanced_chunks, chunk_embeddings,
                   nextDoc, result, embedding, calls>>

ChunkNext ==
    \/ ProcessDocumentContent
    \/ createFixedSizeChunks
    \/ createSentenceWindowChunks
    \/ createParentDocumentChunks
    \/ postProcessChunks

\* One call of the chunker; a loop that can iterate does iterate.
ChunkSpec == ChunkInit /\ [][ChunkNext]_vars /\ WF_vars(ChunkNext)

(***************************************************************************)
(* Properties of the store.                                                *)
(***************************************************************************)
\* The rows of chunk_embeddings that belong to chunks of document id (chunk
\* ids are made of the document id and the chunk's position).
EmbeddingsOf(table, id) == {r \in table.rows : r.chunk_id[1] = id}

\* C1: ingest is all-or-nothing: when RAGService.AddDocument returns an
\* error, at whichever step, the store holds no document row, no chunk row
\* and no embedding of that document.
C1_IngestAllOrNothing ==
    (result.op = "add_document" /\ result.err) =>
        /\ ~\E d \in documents : d.id = result.doc
        /\ ~\E c \in enhanced_chunks : c.document_id = result.doc
        /\ EmbeddingsOf(chunk_embeddings, result.doc) = {}

\* Every chunk row belongs to a document row, every document row has all the
\* chunk rows it was inserted with, and every embedding belongs to a chunk row.
NoPartialDocument ==
    /\ \A c \in enhanced_chunks : \E d \in documents : d.id = c.document_id
    /\ \A d \in documents :
          Cardinality({c \in enhanced_chunks : c.document_id = d.id}) = d.chunk_count
    /\ \A r \in chunk_embeddings.rows : \E c \in enhanced_chunks : c.id = r.chunk_id

\* What a step that is a successful DeleteDocument(d) does: nothing of d is
\* left, and the rows of every other document, their chunks and embeddings,
\* the embedding table's dimension and the collections are as before.
DeleteDocumentEffect ==
    (result'.op = "delete_document" /\ result'.error = "none") =>
        LET d == result'.doc
        IN /\ \E x \in documents : x.id = d
           /\ documents' = {x \in documents : x.id # d}
           /\ enhanced_chunks' = {c \in enhanced_chunks : c.document_id # d}
           /\ chunk_embeddings'.rows =
                 chunk_embeddings.rows \ EmbeddingsOf(chunk_embeddings, d)
           /\ EmbeddingsOf(chunk_embeddings', d) = {}
           /\ chunk_embeddings'.exists = chunk_embeddings.exists
           /\ chunk_embeddings'.dim = chunk_embeddings.dim
           /\ collections' = collections

\* C4: after DeleteDocument(d) succeeds no document row, chunk row or
\* embedding of d remains, every other document's rows, chunks and embeddings
\* and every collection row are unchanged, and no state holding only a part of
\* a document is ever committed.
C4_DeleteDocumentAtomic == [][DeleteDocumentEffect]_vars /\ []NoPartialDocument

\* C4 witness: DeleteDocument has removed a document of two chunks while a
\* document with embeddings remains.
C4_Witness ==
    /\ result.op = "delete_document" /\ result.error = "none"
    /\ result.chunks_deleted = 2
    /\ documents # {}
    /\ chunk_embeddings.rows # {}

\* C5: in every reachable state every stored embedding has the length D the
\* embedding table is typed at.
C5_EmbeddingsHaveTableDimension ==
    \A r \in chunk_embeddings.rows : Len(r.embedding) = chunk_embeddings.dim

\* C5 witness: AddEmbeddings calls with vectors of two lengths have happened:
\* the table holds vectors of document 2 at dimension 2 and document 1, stored
\* earlier with chunks, has no embedding left.
C5_Witness ==
    /\ chunk_embeddings.dim = 2
    /\ EmbeddingsOf(chunk_embeddings, 2) # {}
    /\ \E c \in enhanced_chunks : c.document_id = 1
    /\ EmbeddingsOf(chunk_embeddings, 1) = {}

\* The stored vector of a chunk id.
EmbeddingOf(table, id) == (CHOOSE r \in table.rows : r.chunk_id = id).embedding

\* C6: QuerySimilarChunks returns at most k chunks, each of the requested
\* collection, in order of non-increasing similarity, and each similarity is 1
\* minus the distance of the chunk's stored vector to the query vector.
C6_QueryResultShape ==
    (result.op = "query" /\ ~result.err) =>
        /\ Len(result.chunks) <= result.k
        /\ Len(result.scores) = Len(result.chunks)
        /\ \A i \in DOMAIN result.chunks :
              /\ \E c \in enhanced_chunks :
                    c.id = result.chunks[i] /\ c.collection_name = result.collection
              /\ result.scores[i] =
                    1 - Distance(EmbeddingOf(chunk_embeddings, result.chunks[i]),
                                 result.query)
        /\ \A i, j \in DOMAIN result.scores :
              i < j => result.scores[i] >= result.scores[j]

\* C6 witness: a query has returned two chunks of different similarity.
C6_Witness ==
    /\ result.op = "query" /\ ~result.err
    /\ Len(result.chunks) = 2
    /\ result.scores[1] > result.scores[2]

\* The embedded chunks of the queried collection that satisfy every filter.
Eligible(collectionName, filters) ==
    {r \in chunk_embeddings.rows :
        \E c \in enhanced_chunks :
            c.id = r.chunk_id /\ MatchesFilters(c, documents, collectionName, filters)}

\* C7: the collection restriction and the filters are applied before the k
\* cut-off: the query returns min(k, number of eligible chunks) results and
\* they are the nearest eligible chunks.
C7_FiltersBeforeCutOff ==
    (result.op = "query" /\ ~result.err) =>
        LET eligible == Eligible(result.collection, result.filters)
            n == Cardinality(eligible)
            returned == Range(result.chunks)
        IN /\ Len(result.chunks) = IF n < result.k THEN n ELSE result.k
           /\ \A r \in eligible :
                 r.chunk_id \notin returned =>
                     \A id \in returned :
                         Distance(EmbeddingOf(chunk_embeddings, id), result.query)
                            <= Distance(r.embedding, result.query)

\* C10: when AddEmbeddings returns an error the whole batch is rejected: no
\* vector of the batch is stored and the embeddings stored before the call
\* are unchanged.  The call is the only one: the other goroutine is idle, so
\* the table before the call is calls.start.
C10_FailedBatchChangesNothing ==
    \A p \in Procs :
        (/\ calls.of[p].pc = "returned"
         /\ calls.of[p].err
         /\ \A q \in Procs \ {p} : calls.of[q].pc = "idle") =>
            chunk_embeddings.rows = calls.start.rows

(***************************************************************************)
(* Properties of the embedding client.                                     *)
(***************************************************************************)
\* The endpoint rejects the text even when it is sent alone.
OversizedAlone(text, ep) == text > ep.maxChars

Returned == embedding.pc = "returned" /\ embedding.err = "none"

\* C3: GetEmbeddings called with N texts returns exactly N vectors and vector
\* i is the embedding of text i (the placeholder when text i is too large for
\* the endpoint), however the texts were batched and the batches split.
C3_VectorsInInputOrder ==
    Returned =>
        /\ Len(embedding.embeddings) = Len(embedding.texts)
        /\ \A i \in DOMAIN embedding.texts :
              \/ embedding.embeddings[i] = Embedding(embedding.texts[i])
              \/ /\ OversizedAlone(embedding.texts[i], embedding.endpoint)
                 /\ \A j \in DOMAIN embedding.embeddings[i] :
                       embedding.embeddings[i][j] = 0

\* Five texts against an endpoint that rejects every request of more than two
\* texts and answers in reverse order: the batch was split and split again.
C3_Witness ==
    /\ Returned
    /\ embedding.texts = FiveTexts
    /\ embedding.endpoint.maxTexts = 2
    /\ embedding.endpoint.reversed
    /\ Cardinality({k \in DOMAIN embedding.log :
                       embedding.log[k].err = "input is too large"}) >= 2

\* C8: an error of the endpoint that is not an oversized-batch error reaches
\* the caller of GetEmbeddings only after the third failed attempt of the
\* batch, whatever the size of the batch.
C8_ErrorOnlyAfterThirdAttempt ==
    (embedding.pc = "returned" /\ embedding.err # "none") =>
        /\ embedding.log[Len(embedding.log)].attempt = maxRetries - 1
        /\ embedding.waits # <<>>

\* C9: a text the endpoint rejects as too large even alone gets, at its
\* position, a zero vector of the model's nominal dimension (768 for
\* nomic-embed-text-v1.5, 1024 for mxbai-embed-large and for unknown models),
\* and GetEmbeddings still returns N vectors.
C9_PlaceholderForOversizedText ==
    Returned =>
        /\ Len(embedding.embeddings) = Len(embedding.texts)
        /\ \A i \in DOMAIN embedding.texts :
              OversizedAlone(embedding.texts[i], embedding.endpoint) =>
                 /\ Len(embedding.embeddings[i]) =
                       (IF embedding.model = "nomic-embed-text-v1.5" THEN 768 ELSE 1024)
                 /\ \A j \in DOMAIN embedding.embeddings[i] :
                       embedding.embeddings[i][j] = 0

\* An oversized text between two ordinary ones, for a known model of
\* dimension 768: the call returns three vectors, the second a placeholder.
C9_Witness ==
    /\ Returned
    /\ embedding.model = "nomic-embed-text-v1.5"
    /\ embedding.texts = <<40, 40000, 12000>>
    /\ embedding.endpoint.maxChars = 30000
    /\ embedding.embeddings[1] = Embedding(40)
    /\ Len(embedding.embeddings[2]) = 768

(***************************************************************************)
(* Properties of the chunker.                                              *)
(***************************************************************************)
\* C2: ProcessDocumentContent terminates and returns, for every content and
\* every chunking config, and the only error it returns is the one for the
\* empty content.
C2_ProcessDocumentContentReturns ==
    /\ <>(chunker.pc = "returned")
    /\ [](chunker.pc = "returned" /\ chunker.err # "none"
             => ContentLen(chunker.content) = 0)

\* An iteration of the loop of createFixedSizeChunks that leaves start where
\* it was, with every chunk built so far still on the list: the next
\* iteration is the same one.
C2_Witness ==
    /\ chunker.pc = "fixed_size"
    /\ chunker.config = ZeroConfig
    /\ Len(chunker.children) + 1 < MaxChunks
    /\ FixedSizeIteration(chunker).pc = "fixed_size"
    /\ FixedSizeIteration(chunker).start = chunker.start

(***************************************************************************)
(* Properties of concurrent AddEmbeddings calls (ConcSpec).                *)
(***************************************************************************)
\* What the two calls return and leave in the table when the call of first
\* runs to its end before the call of second begins.
SerialOutcome(first, second) ==
    LET r1 == AddEmbeddings(calls.start, calls.of[first].chunks, FALSE)
        r2 == AddEmbeddings(r1.table, calls.of[second].chunks, FALSE)
    IN [table |-> r2.table,
        err |-> [p \in Procs |-> IF p = first THEN r1.err ELSE r2.err]]

BothReturned == \A p \in Procs : calls.of[p].pc = "returned"

\* C11: when two concurrent AddEmbeddings calls have both returned, the
\* embedding table and the two return values are what running the two calls
\* one after the other, in one of the two orders, gives.
C11_ConcurrentCallsSerialize ==
    BothReturned =>
        [table |-> chunk_embeddings, err |-> [p \in Procs |-> calls.of[p].err]]
            \in {SerialOutcome(1, 2), SerialOutcome(2, 1)}

\* C11 witness: two calls with vectors of different lengths have both
\* returned, and one of them ran its probe while the other was between its
\* probe and its transaction.
C11_Witness ==
    /\ BothReturned
    /\ calls.of[1].embeddingDim > 0
    /\ calls.of[2].embeddingDim > 0
    /\ calls.of[1].embeddingDim # calls.of[2].embeddingDim
    /\ \E p \in Procs : calls.of[p].err

(***************************************************************************)
(* Properties of RAGService.Query (ServiceSpec).                           *)
(***************************************************************************)
\* The embedded chunks of the collection of a request that pass its filters
\* and whose similarity to the query vector reaches its threshold.
Qualifying(req, queryEmbedding) ==
    {r \in Eligible(req.collection_name, req.metadata_filters) :
        req.semantic_threshold.n > 0 =>
            LessEq(req.semantic_threshold,
                   Decimal(Similarity(Distance(r.embedding, queryEmbedding)), 0))}

\* C12: a Query for which no chunk qualifies, the query embedding being
\* available and of the dimension of the embedding table if there is one,
\* returns a response without error and without chunks.  A Query that made no
\* look-up has returned in the step of its search, so the store of the state
\* is the store it searched.
C12_EmptyQuerySucceeds ==
    (/\ result.op = "service_query"
     /\ result.lookups = 0
     /\ result.fault # "embedding_service"
     /\ chunk_embeddings.exists => chunk_embeddings.dim = Len(result.query_embedding)
     /\ Qualifying(result.req, result.query_embedding) = {})
        => /\ result.response.err = "none"
           /\ result.response.chunks = << >>

\* C12 witness: a Query whose hits were all below the semantic threshold has
\* returned.
C12_Witness ==
    /\ result.op = "service_query"
    /\ result.lookups = 0
    /\ Qualifying(result.req, result.query_embedding) = {}
    /\ Eligible(result.req.collection_name, result.req.metadata_filters) # {}
    /\ result.response.err = "none"
    /\ result.response.chunks = << >>

(***************************************************************************)
(* Properties of the delete operations (Spec).                             *)
(***************************************************************************)
\* What a step that is a DeleteCollection(name) without storage failure
\* does, as C13 has it.
DeleteCollectionEffect ==
    (result'.op = "delete_collection" /\ result'.error # "storage") =>
        LET name == result'.name
            ids == {c.id : c \in {x \in enhanced_chunks : x.collection_name = name}}
        IN IF \E c \in collections : c.name = name
           THEN /\ result'.error = "none"
                /\ ~\E c \in collections' : c.name = name
                /\ ~\E d \in documents' : d.collection_name = name
                /\ ~\E c \in enhanced_chunks' : c.collection_name = name
                /\ ~\E r \in chunk_embeddings'.rows : r.chunk_id \in ids
           ELSE /\ result'.error = "not_found"
                /\ UNCHANGED <<collections, documents, enhanced_chunks,
                               chunk_embeddings>>

\* C13: DeleteCollection(name) of a collection that exists succeeds in every
\* reachable state, whether or not the embedding table has been created, and
\* leaves no collection row, document, chunk or embedding of it; of a name
\* that does not exist it returns the not-found error and changes nothing.
C13_DeleteCollectionCascades == [][DeleteCollectionEffect]_vars

\* C13 witness: DeleteCollection has removed a collection that held a
\* document with embeddings.
C13_Witness ==
    /\ result.op = "delete_collection" /\ result.error = "none"
    /\ ~\E c \in collections : c.name = result.name
    /\ \E d \in 1..MaxDocs : d <= nextDoc /\ ~\E x \in documents : x.id = d

\* What a step that is a DeleteDocument(d) does to the lists of documents:
\* when it succeeds, no collection lists d any more and the collection d was
\* the only document of lists nothing; when d is not stored (it never was, or
\* it has been deleted before) the answer is not-found and nothing changes.
DeleteDocumentRoundTrip ==
    (result'.op = "delete_document") =>
        LET d == result'.doc
        IN /\ result'.error = "none" =>
                 \A name \in CollectionNames :
                    /\ ~\E row \in ListDocuments(documents', enhanced_chunks', name) :
                          row.id = d
                    /\ (\A x \in documents : x.collection_name = name => x.id = d)
                          => ListDocuments(documents', enhanced_chunks', name) = {}
           /\ (~\E x \in documents : x.id = d) =>
                 /\ result'.error = "not_found"
                 /\ UNCHANGED <<collections, documents, enhanced_chunks,
                                chunk_embeddings>>

\* C14: after a document has been inserted and deleted, ListDocuments of
\* its collection no longer contains it, and is empty if it was the only
\* document; a second DeleteDocument of the same id returns the not-found
\* error and changes nothing in the store.
C14_DocumentRoundTrip == [][DeleteDocumentRoundTrip]_vars

\* C14 witness: a second DeleteDocument of a document that was inserted and
\* deleted has returned not-found, and no collection lists a document.
C14_Witness ==
    /\ result.op = "delete_document" /\ result.error = "not_found"
    /\ result.doc = 1 /\ nextDoc = 1
    /\ \A name \in CollectionNames : ListDocuments(documents, enhanced_chunks, name) = {}
    /\ chunk_embeddings.exists

(***************************************************************************)
(* Properties of the ingest path (Spec).                                   *)
(***************************************************************************)
\* C15: an ingest into a collection that does not exist stores nothing, so
\* in every reachable state each document row and each chunk row names a
\* collection that has a row in collections.
C15_RowsNameExistingCollection ==
    /\ \A d \in documents : \E c \in collections : c.name = d.collection_name
    /\ \A x \in enhanced_chunks : \E c \in collections : c.name = x.collection_name

\* C15 witness: a document with chunks has been ingested into a collection
\* that exists while another collection name has no row.
C15_Witness ==
    /\ result.op = "add_document" /\ ~result.err
    /\ \E d \in documents :
          /\ d.id = result.doc
          /\ \E c \in collections : c.name = d.collection_name
          /\ \E x \in enhanced_chunks : x.document_id = d.id
    /\ \E name \in CollectionNames : ~\E c \in collections : c.name = name

(***************************************************************************)
(* Properties of the chunk list ProcessDocumentContent returns (ChunkSpec). *)
(***************************************************************************)
\* A call of ProcessDocumentContent has returned a document.
ReturnedDocument == chunker.pc = "returned" /\ chunker.err = "none"

\* The chunk of the list with this id, as a set of at most one chunk (the
\* ids of a run are distinct uuids).
ChunksWithID(chunks, id) == {j \in DOMAIN chunks : chunks[j].ID = id}

\* The id reached from id by following n parent links; 0 when a link is nil
\* or leads to a chunk that is not in the list.
RECURSIVE Ancestor(_, _, _)
Ancestor(chunks, id, n) ==
    IF n = 0 \/ id = 0 THEN id
    ELSE LET at == ChunksWithID(chunks, id)
         IN IF at = {} THEN 0
            ELSE Ancestor(chunks, chunks[CHOOSE j \in at : TRUE].ParentChunkID, n - 1)

\* C16: in the chunk list ProcessDocumentContent returns, every chunk that
\* carries a parent_chunk_id refers to a chunk of the same list (all chunks
\* of a call carry the document id of that call), and no chunk is its own
\* ancestor by parent links.
C16_ParentLinksResolve ==
    ReturnedDocument =>
        \A j \in DOMAIN chunker.chunks :
            LET c == chunker.chunks[j]
            IN /\ c.ParentChunkID # 0 => ChunksWithID(chunker.chunks, c.ParentChunkID) # {}
               /\ \A n \in 1..Len(chunker.chunks) :
                     Ancestor(chunker.chunks, c.ID, n) # c.ID

\* C16 witness: a returned list of the parent-document strategy in which a
\* child's parent link leads to a parent chunk of the list.
C16_Witness ==
    /\ ReturnedDocument
    /\ chunker.adaptive.Strategy = "parent_document"
    /\ \E j, k \in DOMAIN chunker.chunks :
          /\ chunker.chunks[j].ChunkType = "child"
          /\ chunker.chunks[j].ParentChunkID = chunker.chunks[k].ID
          /\ chunker.chunks[k].ChunkType = "parent"

\* C17: in the chunk list ProcessDocumentContent returns, whatever the
\* strategy, the chunk_index values are non-negative and no two chunks share
\* one.
C17_ChunkIndexDistinct ==
    ReturnedDocument =>
        \A j, k \in DOMAIN chunker.chunks :
            /\ chunker.chunks[j].ChunkIndex >= 0
            /\ j # k => chunker.chunks[j].ChunkIndex # chunker.chunks[k].ChunkIndex

\* C17 witness: the parent-document strategy has returned parents and
\* children, and the parents' indexes count up from 0.
C17_Witness ==
    /\ ReturnedDocument
    /\ chunker.adaptive.Strategy = "parent_document"
    /\ \E j, k \in DOMAIN chunker.chunks :
          /\ chunker.chunks[j].ChunkType = "parent"
          /\ chunker.chunks[k].ChunkType = "parent"
          /\ chunker.chunks[j].ChunkIndex = 0
          /\ chunker.chunks[k].ChunkIndex = 1
    /\ \E j \in DOMAIN chunker.chunks : chunker.chunks[j].ChunkType = "child"

\* The content is blank: empty, or white space only.
IsBlank(content) ==
    LET trimmed == TrimSpace(content, 0, ContentLen(content))
    IN trimmed.to = trimmed.from

\* C18: every chunk of a document ProcessDocumentContent returns has a
\* non-empty text (texts are kept by the length they have after trimming),
\* and a call with a blank content, empty or white space only, returns the
\* empty-content error and no document.
C18_ChunkTextsNonEmpty ==
    /\ ReturnedDocument =>
          \A j \in DOMAIN chunker.chunks : chunker.chunks[j].TextLen > 0
    /\ (chunker.pc = "returned" /\ IsBlank(chunker.content)) =>
          /\ chunker.err = "content cannot be empty"
          /\ chunker.chunks = <<>>

\* C18 witness: a call with a content of white space only has returned.
C18_Witness ==
    /\ chunker.pc = "returned"
    /\ IsBlank(chunker.content)
    /\ ContentLen(chunker.content) > 0

\* The lengths of the texts of a chunk list, in the order of the list.  Two
\* lists with the same texts in the same order have the same lengths.
TextLengthsOf(chunks) == [j \in DOMAIN chunks |-> chunks[j].TextLen]

\* The list a run returns has the texts of the list that any run returns
\* from the same chunks: post-processing can visit the section groups in
\* any order of SectionOrders, and the two runs agree up to there.
SameAsEveryRun ==
    (chunker.pc = "post_process" /\ chunker'.pc = "returned") =>
        \A order \in SectionOrders(MergeSmallChunks(chunker.chunks, 1, <<>>)) :
            TextLengthsOf(chunker'.chunks) =
                TextLengthsOf(PostProcess(chunker.chunks, chunker.characteristics,
                                          order, chunker.ids))

\* C19: the chunker is deterministic: two runs of ProcessDocumentContent on
\* the same content with the same config return the same number of chunks,
\* in the same order, with the same texts.
C19_ChunkerDeterministic == [][SameAsEveryRun]_vars

\* C19 witness: a run on a large document has returned a list with chunks of
\* several sections, which post-processing has grouped by section.
C19_Witness ==
    /\ ReturnedDocument
    /\ chunker.characteristics.Category = "large"
    /\ \E j, k \in DOMAIN chunker.chunks :
          SectionKey(chunker.chunks[j]) # SectionKey(chunker.chunks[k])

\* C20: when the config of the caller names a strategy, the document
\* ProcessDocumentContent returns was segmented with that strategy and its
\* metadata records it as chunking_strategy, whatever the size of the
\* document, for every content that is not blank.  (The switch on the strategy and the metadata both read the
\* strategy of the adapted config.)
C20_UserStrategyIsUsed ==
    (ReturnedDocument /\ ~IsBlank(chunker.content) /\ chunker.config.Strategy # "") =>
        chunker.adaptive.Strategy = chunker.config.Strategy

\* C20 witness: a call whose config names a strategy has returned a document
\* segmented into several chunks with that strategy.
C20_Witness ==
    /\ ReturnedDocument
    /\ chunker.config.Strategy = "sentence_window"
    /\ chunker.adaptive.Strategy = "sentence_window"
    /\ Len(chunker.chunks) > 1
    /\ \A j \in DOMAIN chunker.chunks :
          chunker.chunks[j].ChunkType = "sentence_window"

(***************************************************************************)
(* Properties of the query engine (ServiceSpec).                           *)
(***************************************************************************)
\* The ids reached from the chunks ids by at most n parent links, among the
\* chunks that have a row.
RECURSIVE Reached(_, _, _)
Reached(rows, ids, n) ==
    IF n = 0 THEN ids
    ELSE Reached(rows,
                 ids \cup {c.parent_chunk_id : c \in {x \in rows : x.id \in ids}},
                 n - 1)

\* The ancestors of chunk id that have a row.
AncestorsOf(rows, id) ==
    {a \in Reached(rows, {id}, Cardinality(rows)) :
        a # id /\ \E c \in rows : c.id = a}

\* The position of an id in a list of distinct ids; 0 when it is not there.
PositionOf(seq, id) ==
    IF \E p \in DOMAIN seq : seq[p] = id
    THEN CHOOSE p \in DOMAIN seq : seq[p] = id ELSE 0

\* aug is the parent augmentation of the retrieved chunks with their scores.
IsAugmentation(rows, chunks, scores, aug) ==
    /\ Len(aug.chunks) = Len(aug.scores)
    /\ \A p, q \in DOMAIN aug.chunks : p # q => aug.chunks[p] # aug.chunks[q]
    /\ \A i \in DOMAIN chunks :
          /\ PositionOf(aug.chunks, chunks[i]) > 0
          /\ \A a \in AncestorsOf(rows, chunks[i]) :
                PositionOf(aug.chunks, a) > PositionOf(aug.chunks, chunks[i])
                   \/ \E j \in 1..(i - 1) :
                         a = chunks[j] \/ a \in AncestorsOf(rows, chunks[j])
    /\ \A p \in DOMAIN aug.chunks :
          LET from == {i \in DOMAIN chunks :
                          \/ aug.chunks[p] = chunks[i]
                          \/ aug.chunks[p] \in AncestorsOf(rows, chunks[i])}
          IN /\ from # {}
             /\ LET i == CHOOSE i \in from : \A j \in from : i <= j
                IN IF aug.chunks[p] = chunks[i]
                   THEN aug.scores[p] = scores[i]
                   ELSE /\ aug.scores[p] = Times(scores[i], Decimal(9, 1))
                        /\ PositionOf(aug.chunks, chunks[i]) < p

\* C21: with include_parents set, the augmented list holds every retrieved
\* chunk with its score and, after each chunk that has a parent, every
\* ancestor that was not yet in the list, with 0.9 times the score of that
\* chunk; no chunk id is twice in the augmented list.  The ancestors are
\* those of the chunk table the search read.
C21_ParentAugmentation ==
    (result.op = "service_query" /\ result.req.include_parents /\ ~result.hit.err) =>
        IsAugmentation(result.snapshot, Kept(result.req, result.hit).chunks,
                       Kept(result.req, result.hit).scores, result.augmented)

\* C21 witness: a query with include_parents and without re-ranking has
\* answered with a child chunk followed by its parent, which was not
\* retrieved, at 0.9 times the child's score.
C21_Witness ==
    /\ result.op = "service_query"
    /\ result.req.include_parents /\ ~result.req.reranker_enabled
    /\ result.response.err = "none"
    /\ Len(result.response.chunks) = 2
    /\ ChunkOf(result.snapshot, result.response.chunks[1]).parent_chunk_id
          = result.response.chunks[2]
    /\ result.response.scores[2] = Times(result.response.scores[1], Decimal(9, 1))
    /\ result.response.scores[1].n > 0

\* The score zero.
Zero == Decimal(0, 0)

\* C22: every re-ranked score of a Query response lies between 0 and 1.0
\* inclusive, whatever similarities the store returned, and the re-ranked
\* scores come in non-increasing order.
C22_RerankedScoresInRange ==
    (result.op = "service_query" /\ result.response.err = "none") =>
        LET reranked == result.response.reranked
        IN /\ \A i \in DOMAIN reranked :
                 /\ LessEq(Zero, reranked[i])
                 /\ LessEq(reranked[i], One)
           /\ \A i, j \in DOMAIN reranked :
                 i < j => LessEq(reranked[j], reranked[i])

\* C22 witness: a query with re-ranking has answered with a re-ranked score
\* that the cap has brought down to 1.0.
C22_Witness ==
    /\ result.op = "service_query"
    /\ result.req.reranker_enabled
    /\ result.response.err = "none"
    /\ Len(result.response.reranked) > 0
    /\ result.response.reranked[1] = One
    /\ Len(result.response.chunks) = Len(result.response.reranked)

(***************************************************************************)
(* VectorDB.GetChunkWithParents on chunk tables with parent chains of      *)
(* several levels.                                                         *)
(***************************************************************************)
\* The chunks of the table, those of document 1, and an id without a row.
HierarchyIds == {<<1, 1>>, <<1, 2>>, <<1, 3>>}
MissingId == <<1, 4>>

\* The chunk rows of document 1 in collection "a" for a choice of parents.
HierarchyRows(parentOf) ==
    {ChunkRow("a", [chunk_type |-> IF parentOf[id] = NoParent THEN "parent"
                                   ELSE "child", section |-> "section_1",
                    text_len |-> ChunkText(id[2]).text_len,
                    keywords |-> ChunkText(id[2]).keywords, id |-> id,
                    document_id |-> 1,
                    chunk_index |-> id[2] - 1,
                    parent_chunk_id |-> parentOf[id]]) : id \in HierarchyIds}

\* No chunk of the table is its own ancestor.
Acyclic(rows) ==
    \A c \in rows : c.id \notin Reached(rows, {c.parent_chunk_id}, Cardinality(rows))

\* A store with one document whose chunks have any acyclic parent relation:
\* a parent link is nil, names a chunk of the table, or names a chunk that
\* has no row.
HierInit ==
    /\ collections = {[name |-> "a", description |-> "first"]}
    /\ documents = {[doc_type |-> "resume", id |-> 1, collection_name |-> "a",
                     chunk_count |-> Cardinality(HierarchyIds)]}
    /\ \E parentOf \in [HierarchyIds -> HierarchyIds \cup {NoParent, MissingId}] :
          /\ enhanced_chunks = HierarchyRows(parentOf)
          /\ Acyclic(enhanced_chunks)
    /\ chunk_embeddings = NoTable
    /\ nextDoc = 1
    /\ result = [op |-> "none"]
    /\ embedding = NoCall
    /\ chunker = NoCall
    /\ calls = NoCalls

CallGetChunkWithParents ==
    \E chunkID \in HierarchyIds \cup {MissingId} :
        /\ result' = [chunk_id |-> chunkID, op |-> "get_chunk_with_parents",
                      hierarchy |-> GetChunkWithParents(enhanced_chunks, chunkID)]
        /\ UNCHANGED <<collections, documents, enhanced_chunks, chunk_embeddings,
                       nextDoc, embedding, chunker, calls>>

HierNext == CallGetChunkWithParents

HierSpec == HierInit /\ [][HierNext]_vars

\* C23: GetChunkWithParents(id) on an acyclic parent relation returns the
\* requested chunk and every transitive parent that has a row, each once,
\* the root first and the requested chunk last, every chunk followed by its
\* child; for an id that has no chunk it returns the empty list.
C23_HierarchyRootFirst ==
    (result.op = "get_chunk_with_parents") =>
        LET h == result.hierarchy
            id == result.chunk_id
        IN IF ~\E c \in enhanced_chunks : c.id = id THEN h = << >>
           ELSE /\ Len(h) > 0 /\ h[Len(h)] = id
                /\ \A p, q \in DOMAIN h : p # q => h[p] # h[q]
                /\ {h[p] : p \in DOMAIN h} = {id} \cup AncestorsOf(enhanced_chunks, id)
                /\ \A p \in 1..(Len(h) - 1) :
                      ChunkOf(enhanced_chunks, h[p + 1]).parent_chunk_id = h[p]
                /\ ~\E c \in enhanced_chunks :
                      c.id = ChunkOf(enhanced_chunks, h[1]).parent_chunk_id

\* C23 witness: the hierarchy of a chunk with a parent and a grandparent has
\* been returned.
C23_Witness ==
    /\ result.op = "get_chunk_with_parents"
    /\ Len(result.hierarchy) = 3
    /\ result.hierarchy[3] = result.chunk_id

(***************************************************************************)
(* Properties of CreateCollection (Spec).                                  *)
(***************************************************************************)
\* What a step that is a CreateCollection(name, description) for a name
\* that has a row does, as C24 has it.
CreateExistingCollection ==
    (/\ result'.op = "create_collection"
     /\ \E c \in collections : c.name = result'.name) =>
        /\ ~result'.err
        /\ UNCHANGED <<collections, documents, enhanced_chunks, chunk_embeddings>>

\* C24: CreateCollection with the name of an existing collection succeeds
\* and leaves the row of that collection, with its description, and all
\* documents, chunks and embeddings as they were.
C24_CreateCollectionIdempotent == [][CreateExistingCollection]_vars

\* C24 witness: CreateCollection was called with another description for a
\* collection that exists and holds a document with chunks and embeddings;
\* the collection has kept its description.
C24_Witness ==
    /\ result.op = "create_collection"
    /\ \E c \in collections :
          /\ c.name = result.name
          /\ c.description # result.description
    /\ \E x \in enhanced_chunks :
          /\ x.collection_name = result.name
          /\ \E r \in chunk_embeddings.rows : r.chunk_id = x.id

(***************************************************************************)
(* Properties of the chunks of very small documents (ChunkSpec).           *)
(***************************************************************************)
\* A document has been returned for a content of less than 600 characters.
ReturnedShortDocument == ReturnedDocument /\ ContentLen(chunker.content) < 600

\* C25 as stated: for a content of less than 600 characters the chunker
\* returns exactly one chunk, of chunk_type document and section complete.
C25_ShortContentOneDocumentChunk ==
    ReturnedShortDocument =>
        /\ Len(chunker.chunks) = 1
        /\ chunker.chunks[1].ChunkType = "document"
        /\ chunker.chunks[1].Section = <<"complete", 0>>

\* C25 amended: for a content of less than 600 characters chunked under a
\* config that names no strategy, the chunker returns exactly one chunk, of
\* chunk_type fixed_size and section document.
C25_ShortContentOneFixedSizeChunk ==
    (ReturnedShortDocument /\ chunker.config.Strategy = "") =>
        /\ Len(chunker.chunks) = 1
        /\ chunker.chunks[1].ChunkType = "fixed_size"
        /\ chunker.chunks[1].Section = <<"document", 0>>

\* C25 witness: the 34-character content of two sentences has been chunked
\* under a config that names no strategy, into one chunk of 34 characters.
C25_Witness ==
    /\ ReturnedShortDocument
    /\ ContentLen(chunker.content) = 34
    /\ chunker.config.Strategy = ""
    /\ Len(chunker.chunks) = 1
    /\ chunker.chunks[1].TextLen = 34


(***************************************************************************)
(* Properties of a change of the embedding dimension (ConcSpec).            *)
(***************************************************************************)
\* The call of goroutine p is made with vectors of one dimension, which is
\* not the dimension of the embeddings stored before the calls.
OtherDimension(p) ==
    /\ calls.start.rows # {}
    /\ calls.of[p].embeddingDim # 0
    /\ calls.of[p].embeddingDim # calls.start.dim
    /\ \A i \in DOMAIN calls.of[p].chunks :
          Len(calls.of[p].chunks[i].embedding) = calls.of[p].embeddingDim

\* C26: once embeddings of dimension D1 are stored, an AddEmbeddings call
\* whose vectors are of another dimension D2 succeeds, the table having been
\* dropped and created again at D2; every embedding stored before is gone,
\* so that no similarity query, which reads its chunk ids from
\* chunk_embeddings, returns a chunk ingested before.
C26_DimensionChangeDropsEmbeddings ==
    \A p \in Procs :
        (OtherDimension(p) /\ calls.of[p].pc = "returned") =>
            /\ ~calls.of[p].err
            /\ chunk_embeddings.rows \cap calls.start.rows = {}
            /\ \A q \in Procs \ {p} :
                  calls.of[q].pc = "idle" =>
                      /\ chunk_embeddings.dim = calls.of[p].embeddingDim
                      /\ chunk_embeddings.rows # {}

\* C26 witness: a call with a vector of dimension 2 has returned nil on a
\* table that held an embedding of dimension 1, the other goroutine being
\* idle: the table is of dimension 2 and holds the new embedding only.
C26_Witness ==
    \E p \in Procs :
        /\ OtherDimension(p) /\ calls.of[p].pc = "returned" /\ ~calls.of[p].err
        /\ \A q \in Procs \ {p} : calls.of[q].pc = "idle"
        /\ calls.start.dim = 1
        /\ chunk_embeddings.dim = 2
        /\ chunk_embeddings.rows # {}
        /\ chunk_embeddings.rows \cap calls.start.rows = {}


(***************************************************************************)
(* Ingests interleaved with deletes (Spec).  RAGService.AddDocument        *)
(* commits the document and chunk rows in VectorDB.AddDocument, then runs  *)
(* the statements of ensureEmbeddingTableExists one by one and commits the *)
(* embeddings in a second transaction; the handlers of other requests run  *)
(* between these steps.                                                    *)
(***************************************************************************)
\* C27: in every reachable state, under any interleaving of ingests with
\* DeleteDocument, DeleteAllDocumentsInCollection and DeleteCollection, every
\* row of the embedding table refers to a chunk row that exists.
C27_NoOrphanEmbeddings ==
    \A r \in chunk_embeddings.rows : \E c \in enhanced_chunks : c.id = r.chunk_id


(***************************************************************************)
(* Properties of the Query response (ServiceSpec).                         *)
(***************************************************************************)
\* The chunks with their similarities after the threshold and the parent
\* augmentation of the request, on the chunk table the search read.
Scored(req, hit) ==
    IF req.include_parents
    THEN includeParentChunks(result.snapshot, Kept(req, hit).chunks,
                             Kept(req, hit).scores)
    ELSE Kept(req, hit)

\* C28: in every Query response the similarity scores are as many as the
\* chunks, and similarity_scores[i] is the similarity of enhanced_chunks[i]
\* (the retrieved one, or 0.9 times the child's for an added parent), also
\* after re-ranking has reordered the chunks and after the cut to top_k.
C28_ScoresAlignedWithChunks ==
    (result.op = "service_query" /\ result.response.err = "none") =>
        /\ Len(result.response.scores) = Len(result.response.chunks)
        /\ Len(result.response.chunks) > 0 =>
              LET scored == Scored(result.req, result.hit)
              IN \A i \in DOMAIN result.response.chunks :
                        /\ PositionOf(scored.chunks, result.response.chunks[i]) > 0
                        /\ i \in DOMAIN result.response.scores
                        /\ result.response.scores[i] =
                              scored.scores[PositionOf(scored.chunks,
                                                       result.response.chunks[i])]


\* C29: when semantic_threshold is greater than 0, every chunk of the final
\* Query response has a similarity score greater than or equal to the
\* threshold, the parent chunks added by the parent augmentation included.
C29_ScoresMeetThreshold ==
    (/\ result.op = "service_query"
     /\ result.response.err = "none"
     /\ result.req.semantic_threshold.n > 0) =>
        \A i \in DOMAIN result.response.scores :
            LessEq(result.req.semantic_threshold, result.response.scores[i])


(***************************************************************************)
(* Coverage of the content by the chunks (ChunkSpec).                      *)
(***************************************************************************)
\* The letters of the content: what its sentences hold, separators aside.
Letters(content) == content.sentences * content.size

\* C30: for every strategy, every paragraph and sentence of the content
\* appears in the text of at least one chunk of the processed document;
\* nothing is dropped because an accumulator or a window stayed below
\* min_chunk_size or because a loop stopped early.  The texts of the model
\* are known by their lengths: chunks whose texts hold every sentence of the
\* content have, together, at least as many characters as the content has
\* letters.
C30_ContentCovered ==
    (ReturnedDocument /\ ~IsBlank(chunker.content)) =>
        SumTextLen(chunker.chunks, 1) >= Letters(chunker.content)

====
